---------------------------- MODULE Spec2Model ----------------------------
(***************************************************************************)
(* Salus execution engine (executionengine.cpp): ticket based resource     *)
(* accounting through ResourceContext, session admission, the scheduling   *)
(* loop with its per-session queues, the worker-pool task callbacks and    *)
(* the paging algorithm.                                                   *)
(*                                                                         *)
(* The module holds several specifications over one set of variables; each *)
(* specification leaves the variables of the other parts unchanged:        *)
(*   SpecRes    ResourceContext / OperationScope over the ResourceMonitor  *)
(*   SpecAdmit  createSessionOffer / ~Data over the SessionResourceTracker *)
(*   SpecPaging one call of ExecutionEngine::doPaging                      *)
(*   SpecLifecycle clients creating and deleting sessions, scheduleLoop,   *)
(*              worker pool and task callbacks, without paging             *)
(*   SpecEngine the same with paging, for sessions that stay               *)
(*   SpecSubmit calls of submitTask and the closures they hand to the pool *)
(*   SpecBackoff the scheduling loop of one session with a clock           *)
(*   SpecWake   push and notify as two steps, with a fair scheduler        *)
(*   SpecLocks  doPaging against a worker's OperationScope: the locks      *)
(*                                                                         *)
(* ResourceMonitor, SessionResourceTracker, SessionItem and the scheduling *)
(* policy are declared in headers that are not part of the sources at      *)
(* hand; their operations are modelled from the specification text.        *)
(***************************************************************************)
EXTENDS Integers, Sequences, FiniteSets, TLC

(***************************************************************************)
(* Bounds of the model.                                                    *)
(***************************************************************************)
MaxTicket == 6      \* ticket ids the monitor has
MaxIssue == 2       \* tickets ResourceContexts draw in one run of SpecRes
PagLimit == 3       \* capacity of GPU0 memory in the paging runs
MemLimit == 2       \* capacity of every resource key
MaxCtx == 2         \* ResourceContext objects
MaxDebt == 1        \* how far below zero a session counter is followed
MaxOffer == 3       \* offers the tracker may issue in one run
MaxOps == 2         \* operations the clients submit in one run
PoolSize == 1       \* closures the worker pool holds at a time
MaxEvict == 2       \* times one session is force-evicted in one run
Capacity == 1000    \* admission capacity of every resource key
MaxClock == 90      \* milliseconds of system_clock one run follows
Tick == 15          \* milliseconds one scheduler iteration may take

\* maybeWaitForAWhile: "constexpr auto initialSleep = 10ms, getBored = 20ms"
initialSleep == 10
getBored == 20

(***************************************************************************)
(* Resource keys: (ResourceType, DeviceSpec).                              *)
(***************************************************************************)
ResourceTypes == {"MEMORY"}
Devices == {"GPU0", "CPU0"}
Tags == ResourceTypes \X Devices
Sessions == {"A", "B", "C"}
Tickets == 1..MaxTicket
Ctxs == 1..MaxCtx
Quantities == 1..MemLimit
NoScope == [ctx |-> 0]
NoSubmit == [op |-> 0, ret |-> "none"]
Offers == 1..MaxOffer
Ops == 1..MaxOps
Predictions == {0, 500, 600}    \* predicted usages a client may ask for
ResourceMaps == [Tags -> Predictions]

VARIABLES
    (* ResourceMonitor *)
    limits,         \* total capacity per key
    free,           \* quantity neither staged nor committed, per key
    staging,        \* per ticket, per key: reserved, not yet committed
    committed,      \* per ticket, per key: committed
    nextTicket,     \* next ticket id to issue (0 is the invalid ticket)
    (* ResourceContext / OperationScope *)
    rctx,           \* per context: m_ticket, hasStaging, m_spec, session
    scope,          \* the open OperationScope (it holds the monitor's lock)
    (* SessionItem bookkeeping *)
    resourceUsage,  \* per session, per key
    tickets,        \* per session: the tickets it owns
    (* SessionResourceTracker *)
    aggregate,      \* predicted usage of all admitted offers, per key
    offers,         \* per offer id: the predicted usage it reserves
    nextOffer,      \* next offer id to issue
    (* ExecutionContext::Data, one context per session slot *)
    ectx,           \* state, item (m_data->item is set), resOffer
    (* ExecutionEngine session collections *)
    m_newSessions,      \* list, guarded by m_newMu
    m_sessions,         \* list, owned by the scheduling thread
    m_deletedSessions,  \* set, guarded by m_delMu
    m_note_has_work,    \* the work notification is signalled
    m_runningTasks,
    m_noPagingRunningTasks,
    pool,               \* closures the worker pool accepted and has not run
    (* scheduleLoop: position and locals of the scheduling thread *)
    pc,
    chgDeleted,         \* changeset.deletedSessions
    idx,                \* position of the loop over m_sessions / candidates
    candidates,         \* the policy's candidates of this iteration
    totalRemainingCount,
    remainingCount,
    scheduled,
    count,              \* operations maybeScheduleFrom scheduled so far
    submitRet,          \* what the last submitTask of this visit returned
    didPaging,
    (* SessionItem *)
    queue,              \* front queue, guarded by mu
    bgQueue,            \* backing queue, owned by the scheduling thread
    forceEvicted,
    protectOOM,
    pagingCb,           \* paging callbacks are registered
    totalExecutedOp,
    (* OperationItem / OperationTask *)
    opSess,             \* weak reference to the session ("null": empty)
    opState,            \* where the operation is in its life
    opAsync,            \* OperationTask::isAsync()
    opGood,             \* resourceContext().isGood()
    opCancels,          \* calls of OperationTask::cancel()
    opLate,             \* enqueued after deleteSession on its context
    opRetry,            \* "requeued" by memFailure, "redispatched" after that
    (* doPaging: locals of one call *)
    pagCands,           \* candidates, sorted by usage, descending
    pagIdx,             \* i of the loop over candidates
    victims,            \* sortVictim(pSess->tickets)
    released,
    muHeld,             \* the session whose mu doPaging holds ("none")
    pagRet,             \* "running", "true", "false"; "idle" outside a call
    volunteered,        \* sessions whose volunteer() this call invoked
    evictedNow,         \* sessions this call force-evicted
    evictCalls,         \* per session: calls of pagingCb.forceEvicted()
    (* maybeWaitForAWhile *)
    clock,              \* system_clock::now(), in milliseconds
    last,               \* static: time of the last progress
    sleep,              \* static: duration of the next sleep
    slept,              \* what the last call returned
    (* scheduleLoop: the policy's answer in this iteration *)
    askedPolicy,        \* "no", or what insufficientMemory(GPU0) returned
    (* pushToSessionQueue: callers between the push and the notify *)
    notifying,          \* operations pushed whose notify() is still to come
    (* locks: the monitor mutex is held while scope is open *)
    tickets_mu,         \* per session: "free", or the thread that holds it
    commitPc            \* "notify": inside commit(), before notifyMemoryAllocation

admVars == <<aggregate, offers, nextOffer>>

sessVars == <<ectx, m_newSessions, m_sessions, m_deletedSessions>>

schedVars == <<pc, chgDeleted, idx, candidates, totalRemainingCount,
               remainingCount, scheduled, count, submitRet, didPaging>>

itemVars == <<queue, bgQueue, forceEvicted, protectOOM, pagingCb, totalExecutedOp>>

opVars == <<opSess, opState, opAsync, opGood, opCancels, opLate, opRetry>>

poolVars == <<m_note_has_work, m_runningTasks, m_noPagingRunningTasks, pool>>

pagVars == <<pagCands, pagIdx, victims, released, muHeld, pagRet, volunteered,
             evictedNow, evictCalls>>

engAll == <<admVars, sessVars, schedVars, itemVars, opVars, poolVars, pagVars>>

resVars == <<limits, free, staging, committed, nextTicket, rctx, scope,
             resourceUsage, tickets>>

waitVars == <<clock, last, sleep, slept>>

lockVars == <<tickets_mu, commitPc>>

vars == <<resVars, engAll, waitVars, askedPolicy, notifying, lockVars>>

ZeroRes == [k \in Tags |-> 0]

RECURSIVE SumOver(_, _)
SumOver(f, S) ==
    IF S = {} THEN 0
    ELSE LET x == CHOOSE y \in S : TRUE IN f[x] + SumOver(f, S \ {x})

(***************************************************************************)
(* ResourceMonitor operations.                                             *)
(***************************************************************************)
\* preAllocate(res): all of res is staged under a new ticket, or nothing is.
PreAllocateFits(tag, n) == n <= free[tag]

PreAllocateStage(tag, n) ==
    /\ free' = [free EXCEPT ![tag] = @ - n]
    /\ staging' = [staging EXCEPT ![nextTicket][tag] = @ + n]
    /\ nextTicket' = nextTicket + 1

\* allocate(ticket, res) through the proxy: staging -> committed; fails when
\* the ticket's staging is insufficient (ticket 0 has none).
AllocateFits(t, tag, n) == t \in Tickets /\ staging[t][tag] >= n

AllocateCommit(t, tag, n) ==
    /\ staging' = [staging EXCEPT ![t][tag] = @ - n]
    /\ committed' = [committed EXCEPT ![t][tag] = @ + n]

\* free(ticket, res): decommits res from the ticket and returns it to the
\* pool; a ticket that does not hold res is left alone.
FreeFits(t, tag, n) == t \in Tickets /\ committed[t][tag] >= n

FreeDecommit(t, tag, n) ==
    IF FreeFits(t, tag, n)
    THEN /\ committed' = [committed EXCEPT ![t][tag] = @ - n]
         /\ free' = [free EXCEPT ![tag] = @ + n]
    ELSE UNCHANGED <<committed, free>>

\* A freeStaging that forgets the staged quantities instead of returning
\* them to the pool.
FreeStagingLeak(t) ==
    /\ staging' = [staging EXCEPT ![t] = ZeroRes]
    /\ UNCHANGED free

\* freeStaging(ticket): all remaining staging of the ticket goes back.
FreeStagingOf(t) ==
    /\ free' = [k \in Tags |-> free[k] + staging[t][k]]
    /\ staging' = [staging EXCEPT ![t] = ZeroRes]

\* hasUsage(ticket), evaluated on the monitor after freeStaging(ticket).
HasUsageAfterFreeStaging(t) == \E k \in Tags : committed[t][k] # 0

(***************************************************************************)
(* SessionItem ticket index.                                               *)
(***************************************************************************)
NotifyMemoryAllocation(s, t) == tickets' = [tickets EXCEPT ![s] = @ \cup {t}]

RemoveMemoryAllocationTicket(s, t) == tickets' = [tickets EXCEPT ![s] = @ \ {t}]

(***************************************************************************)
(* ResourceContext.                                                        *)
(***************************************************************************)
CtxSession(c) == IF c = 1 THEN "A" ELSE IF c = 2 THEN "B" ELSE "C"

InitRes ==
    /\ limits = [k \in Tags |-> MemLimit]
    /\ free = [k \in Tags |-> MemLimit]
    /\ staging = [t \in Tickets |-> ZeroRes]
    /\ committed = [t \in Tickets |-> ZeroRes]
    /\ nextTicket = 1
    /\ rctx = [c \in Ctxs |-> [ticket |-> 0, hasStaging |-> FALSE,
                               spec |-> "GPU0", session |-> CtxSession(c)]]
    /\ scope = NoScope
    /\ resourceUsage = [s \in Sessions |-> ZeroRes]
    /\ tickets = [s \in Sessions |-> {}]

\* ResourceContext::initializeStaging(spec, res, missing)
InitializeStaging(c, dev, n) ==
    /\ scope = NoScope
    /\ ~rctx[c].hasStaging
    /\ nextTicket <= MaxIssue
    /\ LET tag == <<"MEMORY", dev>> IN
       IF PreAllocateFits(tag, n)
       THEN /\ PreAllocateStage(tag, n)
            /\ rctx' = [rctx EXCEPT ![c].spec = dev, ![c].ticket = nextTicket,
                                    ![c].hasStaging = TRUE]
       ELSE /\ rctx' = [rctx EXCEPT ![c].spec = dev]
            /\ UNCHANGED <<free, staging, nextTicket>>
    /\ UNCHANGED <<limits, committed, scope, resourceUsage, tickets>>
    /\ UNCHANGED <<engAll, waitVars, lockVars, notifying, askedPolicy>>

\* ResourceContext::releaseStaging()
ReleaseStaging(c) ==
    /\ scope = NoScope
    /\ rctx[c].hasStaging
    /\ FreeStagingOf(rctx[c].ticket)
    /\ rctx' = [rctx EXCEPT ![c].hasStaging = FALSE]
    /\ IF ~HasUsageAfterFreeStaging(rctx[c].ticket)
       THEN RemoveMemoryAllocationTicket(rctx[c].session, rctx[c].ticket)
       ELSE UNCHANGED tickets
    /\ UNCHANGED <<limits, committed, nextTicket, scope, resourceUsage>>
    /\ UNCHANGED <<engAll, waitVars, lockVars, notifying, askedPolicy>>

\* ResourceContext::alloc(type): commit whatever is staged for the key.
AllocStaged(c, type) ==
    /\ scope = NoScope
    /\ LET t == rctx[c].ticket
           tag == <<type, rctx[c].spec>>
           num == IF t \in Tickets THEN staging[t][tag] ELSE 0
       IN IF num = 0
          THEN /\ scope' = [ctx |-> c, tag |-> tag, num |-> 0, valid |-> FALSE]
               /\ UNCHANGED <<staging, committed>>
          ELSE /\ scope' = [ctx |-> c, tag |-> tag, num |-> num,
                            valid |-> AllocateFits(t, tag, num)]
               /\ AllocateCommit(t, tag, num)
    /\ UNCHANGED <<limits, free, nextTicket, rctx, resourceUsage, tickets>>
    /\ UNCHANGED <<engAll, waitVars, lockVars, notifying, askedPolicy>>

\* ResourceContext::alloc(type, num)
AllocNum(c, type, n) ==
    /\ scope = NoScope
    /\ LET t == rctx[c].ticket
           tag == <<type, rctx[c].spec>>
       IN /\ scope' = [ctx |-> c, tag |-> tag, num |-> n,
                       valid |-> AllocateFits(t, tag, n)]
          /\ IF AllocateFits(t, tag, n)
             THEN AllocateCommit(t, tag, n)
             ELSE UNCHANGED <<staging, committed>>
    /\ UNCHANGED <<limits, free, nextTicket, rctx, resourceUsage, tickets>>
    /\ UNCHANGED <<engAll, waitVars, lockVars, notifying, askedPolicy>>

\* OperationScope::commit(), and the scope's end (the proxy is released).
Commit ==
    /\ scope # NoScope
    /\ LET s == rctx[scope.ctx].session IN
       IF scope.valid
       THEN /\ resourceUsage' = [resourceUsage EXCEPT ![s][scope.tag] = @ + scope.num]
            /\ NotifyMemoryAllocation(s, rctx[scope.ctx].ticket)
       ELSE UNCHANGED <<resourceUsage, tickets>>
    /\ scope' = NoScope
    /\ UNCHANGED <<limits, free, staging, committed, nextTicket, rctx>>
    /\ UNCHANGED <<engAll, waitVars, lockVars, notifying, askedPolicy>>

\* OperationScope::commit() up to the call of notifyMemoryAllocation: the
\* session's usage is credited and the proxy still holds the monitor mutex.
\* A scope that is not valid ends at once.
CommitUsage ==
    /\ scope # NoScope
    /\ commitPc = "idle"
    /\ IF scope.valid
       THEN /\ resourceUsage' = [resourceUsage EXCEPT
                                   ![rctx[scope.ctx].session][scope.tag] = @ + scope.num]
            /\ commitPc' = "notify"
            /\ UNCHANGED scope
       ELSE /\ scope' = NoScope
            /\ UNCHANGED <<resourceUsage, commitPc>>
    /\ UNCHANGED tickets_mu
    /\ UNCHANGED <<limits, free, staging, committed, nextTicket, rctx, tickets>>
    /\ UNCHANGED <<engAll, waitVars, notifying, askedPolicy>>

\* SessionItem::notifyMemoryAllocation(ticket) called by commit(): takes
\* tickets_mu, inserts the ticket and releases it; then the scope ends and
\* the proxy gives the monitor mutex back.
CommitNotify ==
    /\ commitPc = "notify"
    /\ LET s == rctx[scope.ctx].session IN
       /\ tickets_mu[s] = "free"
       /\ NotifyMemoryAllocation(s, rctx[scope.ctx].ticket)
    /\ commitPc' = "idle"
    /\ scope' = NoScope
    /\ UNCHANGED tickets_mu
    /\ UNCHANGED <<limits, free, staging, committed, nextTicket, rctx, resourceUsage>>
    /\ UNCHANGED <<engAll, waitVars, notifying, askedPolicy>>

\* OperationScope::rollback() (DCHECK(valid)), and the scope's end.
Rollback ==
    /\ scope # NoScope
    /\ scope.valid
    /\ commitPc = "idle"
    /\ FreeDecommit(rctx[scope.ctx].ticket, scope.tag, scope.num)
    /\ scope' = NoScope
    /\ UNCHANGED <<limits, staging, nextTicket, rctx, resourceUsage, tickets>>
    /\ UNCHANGED <<engAll, waitVars, lockVars, notifying, askedPolicy>>

\* ResourceContext::dealloc(type, num)
Dealloc(c, type, n) ==
    /\ scope = NoScope
    /\ LET tag == <<type, rctx[c].spec>>
           s == rctx[c].session
       IN /\ resourceUsage[s][tag] - n >= 0 - MaxDebt
          /\ FreeDecommit(rctx[c].ticket, tag, n)
          /\ resourceUsage' = [resourceUsage EXCEPT ![s][tag] = @ - n]
    /\ UNCHANGED <<limits, staging, nextTicket, rctx, scope, tickets>>
    /\ UNCHANGED <<engAll, waitVars, lockVars, notifying, askedPolicy>>

(***************************************************************************)
(* SessionResourceTracker.                                                 *)
(***************************************************************************)
\* admit(rm, offer): true iff aggregate + rm <= capacity on every key.
AdmitFits(rm) ==
    /\ nextOffer <= MaxOffer
    /\ \A k \in Tags : aggregate[k] + rm[k] <= Capacity

AdmitReserve(rm) ==
    /\ aggregate' = [k \in Tags |-> aggregate[k] + rm[k]]
    /\ offers' = [offers EXCEPT ![nextOffer] = rm]
    /\ nextOffer' = nextOffer + 1

\* free(offer): the offer's reservation returns to the pool.
TrackerFree(offer) ==
    /\ aggregate' = [k \in Tags |-> aggregate[k] - offers[offer][k]]
    /\ offers' = [offers EXCEPT ![offer] = ZeroRes]
    /\ UNCHANGED nextOffer

InitAdm ==
    /\ aggregate = ZeroRes
    /\ offers = [o \in Offers |-> ZeroRes]
    /\ nextOffer = 1

(***************************************************************************)
(* Shared ownership of a SessionItem: the weak reference of an operation   *)
(* can be lifted while some strong reference exists: the context's item,   *)
(* the engine's collections, the change set, the scheduler's candidates,   *)
(* or the callbacks of a running operation (cbs.done captures the item).   *)
(***************************************************************************)
Range(q) == {q[i] : i \in 1..Len(q)}

Alive(s) ==
    /\ s \in Sessions
    /\ \/ ectx[s].item
       \/ s \in Range(m_newSessions)
       \/ s \in Range(m_sessions)
       \/ s \in m_deletedSessions
       \/ s \in chgDeleted
       \/ s \in Range(candidates)
       \/ \E op \in Ops : opState[op] = "running" /\ opSess[op] = s

(***************************************************************************)
(* ExecutionContext: the client's handle of a session.                     *)
(***************************************************************************)
NoContext == [state |-> "none", item |-> FALSE, resOffer |-> 0, predicted |-> ZeroRes]

\* A createSessionOffer that hands out a session although the tracker
\* refused the prediction.
CreateSessionOfferAnyway(x, rm) ==
    /\ ectx[x].state = "none"
    /\ IF AdmitFits(rm)
       THEN /\ AdmitReserve(rm)
            /\ ectx' = [ectx EXCEPT ![x] = [state |-> "offered", item |-> TRUE,
                                            resOffer |-> nextOffer, predicted |-> rm]]
       ELSE /\ ectx' = [ectx EXCEPT ![x] = [state |-> "offered", item |-> TRUE,
                                            resOffer |-> 0, predicted |-> rm]]
            /\ UNCHANGED admVars
    /\ UNCHANGED <<m_newSessions, m_sessions, m_deletedSessions>>
    /\ UNCHANGED <<resVars, waitVars, lockVars, notifying, askedPolicy, schedVars, itemVars, opVars, poolVars, pagVars>>

\* ExecutionEngine::createSessionOffer(rm)
CreateSessionOffer(x, rm) ==
    /\ ectx[x].state = "none"
    /\ IF AdmitFits(rm)
       THEN /\ AdmitReserve(rm)
            /\ ectx' = [ectx EXCEPT ![x] = [state |-> "offered", item |-> TRUE,
                                            resOffer |-> nextOffer, predicted |-> rm]]
       ELSE /\ ectx' = [ectx EXCEPT ![x] = [state |-> "empty", item |-> FALSE,
                                            resOffer |-> 0, predicted |-> rm]]
            /\ UNCHANGED admVars
    /\ UNCHANGED <<m_newSessions, m_sessions, m_deletedSessions>>
    /\ UNCHANGED <<resVars, waitVars, lockVars, notifying, askedPolicy, schedVars, itemVars, opVars, poolVars, pagVars>>

\* ExecutionContext::acceptOffer(sessHandle), Data::insertIntoEngine(),
\* ExecutionEngine::insertSession(item)
AcceptOffer(x) ==
    /\ ectx[x].state = "offered"
    /\ ectx' = [ectx EXCEPT ![x].state = "accepted"]
    /\ IF ectx[x].item
       THEN /\ m_newSessions' = Append(m_newSessions, x)
            /\ m_note_has_work' = TRUE
       ELSE UNCHANGED <<m_newSessions, m_note_has_work>>
    /\ UNCHANGED <<m_sessions, m_deletedSessions, m_runningTasks,
                   m_noPagingRunningTasks, pool>>
    /\ UNCHANGED <<resVars, waitVars, lockVars, notifying, askedPolicy, admVars, schedVars, itemVars, opVars, pagVars>>

\* ExecutionContext::registerPagingCallbacks(pcb)
RegisterPagingCallbacks(x) ==
    /\ ectx[x].item
    /\ muHeld # x
    /\ ~pagingCb[x]
    /\ pagingCb' = [pagingCb EXCEPT ![x] = TRUE]
    /\ UNCHANGED <<queue, bgQueue, forceEvicted, protectOOM, totalExecutedOp>>
    /\ UNCHANGED <<resVars, waitVars, lockVars, notifying, askedPolicy, admVars, sessVars, schedVars, opVars, poolVars, pagVars>>

\* A removeFromEngine that hands the engine a copy of the reference and
\* keeps its own.
RemoveFromEngineCopy(x, st) ==
    /\ ectx' = [ectx EXCEPT ![x] = [state |-> st, item |-> @.item,
                                    resOffer |-> IF st = "destroyed" THEN 0 ELSE @.resOffer,
                                    predicted |-> @.predicted]]
    /\ IF ectx[x].item
       THEN /\ m_deletedSessions' = m_deletedSessions \cup {x}
            /\ m_note_has_work' = TRUE
       ELSE UNCHANGED <<m_deletedSessions, m_note_has_work>>

\* ExecutionContext::Data::removeFromEngine() with
\* ExecutionEngine::deleteSession(std::move(item)): the context gives up its
\* reference, the item waits in m_deletedSessions.  st is the state the
\* context is left in by the caller.
RemoveFromEngine(x, st) ==
    /\ ectx' = [ectx EXCEPT ![x] = [state |-> st, item |-> FALSE,
                                    resOffer |-> IF st = "destroyed" THEN 0 ELSE @.resOffer,
                                    predicted |-> @.predicted]]
    /\ IF ectx[x].item
       THEN /\ m_deletedSessions' = m_deletedSessions \cup {x}
            /\ m_note_has_work' = TRUE
       ELSE UNCHANGED <<m_deletedSessions, m_note_has_work>>

\* ExecutionContext::deleteSession(cb)
DeleteSession(x) ==
    /\ ectx[x].state \in {"offered", "accepted"}
    /\ RemoveFromEngine(x, "deleted")
    /\ UNCHANGED <<m_newSessions, m_sessions, m_runningTasks,
                   m_noPagingRunningTasks, pool>>
    /\ UNCHANGED <<resVars, waitVars, lockVars, notifying, askedPolicy, admVars, schedVars, itemVars, opVars, pagVars>>

\* ExecutionContext::Data::~Data()
DestroyData(x) ==
    /\ ectx[x].state \in {"offered", "accepted", "deleted"}
    /\ RemoveFromEngine(x, "destroyed")
    /\ IF ectx[x].resOffer # 0
       THEN TrackerFree(ectx[x].resOffer)
       ELSE UNCHANGED admVars
    /\ UNCHANGED <<m_newSessions, m_sessions, m_runningTasks,
                   m_noPagingRunningTasks, pool>>
    /\ UNCHANGED <<resVars, waitVars, lockVars, notifying, askedPolicy, schedVars, itemVars, opVars, pagVars>>

\* ExecutionEngine::pushToSessionQueue(opItem): the outcome for an operation
\* whose weak reference is w.
PushToSessionQueue(op, w) ==
    IF ~Alive(w)
    THEN /\ opState' = [opState EXCEPT ![op] = "dropped"]
         /\ UNCHANGED <<queue, m_note_has_work>>
    ELSE /\ muHeld # w
         /\ queue' = [queue EXCEPT ![w] = Append(@, op)]
         /\ m_note_has_work' = TRUE
         /\ opState' = [opState EXCEPT ![op] = "queued"]

\* ExecutionContext::enqueueOperation(task), Data::enqueueOperation(task)
EnqueueOperation(x, op, async, good) ==
    /\ ectx[x].state \in {"offered", "accepted", "deleted"}
    /\ opState[op] = "idle"
    /\ \A o \in Ops : o < op => opState[o] # "idle"
    /\ LET w == IF ectx[x].item THEN x ELSE "null" IN
        /\ opSess' = [opSess EXCEPT ![op] = w]
        /\ PushToSessionQueue(op, w)
    /\ opAsync' = [opAsync EXCEPT ![op] = async]
    /\ opGood' = [opGood EXCEPT ![op] = good]
    /\ opLate' = [opLate EXCEPT ![op] = (ectx[x].state = "deleted")]
    /\ UNCHANGED opRetry
    /\ UNCHANGED <<opCancels, bgQueue, forceEvicted, protectOOM, pagingCb,
                   totalExecutedOp, m_runningTasks,
                   m_noPagingRunningTasks, pool>>
    /\ UNCHANGED <<resVars, waitVars, lockVars, notifying, askedPolicy, admVars, sessVars, schedVars, pagVars>>

\* pushToSessionQueue up to the release of sess->mu: the operation is in
\* the front queue and the caller has still to call m_note_has_work.notify().
PushOnly(op, w) ==
    IF ~Alive(w)
    THEN /\ opState' = [opState EXCEPT ![op] = "dropped"]
         /\ UNCHANGED <<queue, notifying>>
    ELSE /\ muHeld # w
         /\ queue' = [queue EXCEPT ![w] = Append(@, op)]
         /\ notifying' = notifying \cup {op}
         /\ opState' = [opState EXCEPT ![op] = "queued"]

\* enqueueOperation as far as the push of pushToSessionQueue
EnqueueOperationPush(x, op, async, good) ==
    /\ ectx[x].state \in {"offered", "accepted", "deleted"}
    /\ opState[op] = "idle"
    /\ \A o \in Ops : o < op => opState[o] # "idle"
    /\ LET w == IF ectx[x].item THEN x ELSE "null" IN
        /\ opSess' = [opSess EXCEPT ![op] = w]
        /\ PushOnly(op, w)
    /\ opAsync' = [opAsync EXCEPT ![op] = async]
    /\ opGood' = [opGood EXCEPT ![op] = good]
    /\ opLate' = [opLate EXCEPT ![op] = (ectx[x].state = "deleted")]
    /\ UNCHANGED opRetry
    /\ UNCHANGED <<opCancels, bgQueue, forceEvicted, protectOOM, pagingCb,
                   totalExecutedOp, m_note_has_work, m_runningTasks,
                   m_noPagingRunningTasks, pool>>
    /\ UNCHANGED <<resVars, waitVars, lockVars, askedPolicy, admVars, sessVars, schedVars, pagVars>>

\* A notify() that wakes the scheduler only if it is waiting and is
\* forgotten otherwise.
NotifyIfWaiting(op) ==
    /\ op \in notifying
    /\ notifying' = notifying \ {op}
    /\ m_note_has_work' = IF pc = "wait" THEN TRUE ELSE m_note_has_work
    /\ UNCHANGED <<m_runningTasks, m_noPagingRunningTasks, pool>>
    /\ UNCHANGED <<resVars, waitVars, lockVars, askedPolicy, admVars, sessVars, schedVars,
                   itemVars, opVars, pagVars>>

\* The last statement of pushToSessionQueue: m_note_has_work.notify()
NotifyHasWork(op) ==
    /\ op \in notifying
    /\ notifying' = notifying \ {op}
    /\ m_note_has_work' = TRUE
    /\ UNCHANGED <<m_runningTasks, m_noPagingRunningTasks, pool>>
    /\ UNCHANGED <<resVars, waitVars, lockVars, askedPolicy, admVars, sessVars, schedVars,
                   itemVars, opVars, pagVars>>

(***************************************************************************)
(* ExecutionEngine::scheduleLoop, one action per step of an iteration.     *)
(***************************************************************************)
\* swap(changeset.deletedSessions, m_deletedSessions), under m_delMu
SwapDeleted ==
    /\ pc = "swapDel"
    /\ chgDeleted' = m_deletedSessions
    /\ m_deletedSessions' = {}
    /\ pc' = "removeDel"
    /\ UNCHANGED <<idx, candidates, totalRemainingCount, remainingCount,
                   scheduled, count, submitRet, didPaging, ectx, m_newSessions, m_sessions>>
    /\ UNCHANGED <<resVars, waitVars, lockVars, notifying, askedPolicy, admVars, itemVars, opVars, poolVars, pagVars>>

\* m_sessions.remove_if(deleted)
RemoveDeleted ==
    /\ pc = "removeDel"
    /\ m_sessions' = SelectSeq(m_sessions, LAMBDA s : s \notin chgDeleted)
    /\ pc' = "spliceNew"
    /\ UNCHANGED <<chgDeleted, idx, candidates, totalRemainingCount,
                   remainingCount, scheduled, count, submitRet, didPaging, ectx, m_newSessions,
                   m_deletedSessions>>
    /\ UNCHANGED <<resVars, waitVars, lockVars, notifying, askedPolicy, admVars, itemVars, opVars, poolVars, pagVars>>

\* A splice that copies the new sessions and leaves m_newSessions as it is.
SpliceNewCopy ==
    /\ pc = "spliceNew"
    /\ m_sessions' = m_sessions \o m_newSessions
    /\ totalRemainingCount' = 0
    /\ idx' = 1
    /\ pc' = IF m_sessions' = <<>> THEN "policy" ELSE "prepare"
    /\ UNCHANGED <<chgDeleted, candidates, remainingCount, scheduled, count, submitRet, didPaging,
                   ectx, m_newSessions, m_deletedSessions>>
    /\ UNCHANGED <<resVars, waitVars, lockVars, notifying, askedPolicy, admVars, itemVars, opVars, poolVars, pagVars>>

\* m_sessions.splice(m_sessions.end(), m_newSessions), under m_newMu
SpliceNew ==
    /\ pc = "spliceNew"
    /\ m_sessions' = m_sessions \o m_newSessions
    /\ m_newSessions' = <<>>
    /\ totalRemainingCount' = 0
    /\ idx' = 1
    /\ pc' = IF m_sessions' = <<>> THEN "policy" ELSE "prepare"
    /\ UNCHANGED <<chgDeleted, candidates, remainingCount, scheduled, count, submitRet, didPaging,
                   ectx, m_deletedSessions>>
    /\ UNCHANGED <<resVars, waitVars, lockVars, notifying, askedPolicy, admVars, itemVars, opVars, poolVars, pagVars>>

\* A prepare step that cancels the operations of a force-evicted session and
\* leaves them in bgQueue.
PrepareSessionKeep ==
    /\ pc = "prepare"
    /\ idx <= Len(m_sessions)
    /\ LET s == m_sessions[idx]
           spliced == bgQueue[s] \o queue[s]
       IN /\ muHeld # s
          /\ queue' = [queue EXCEPT ![s] = <<>>]
          /\ bgQueue' = [bgQueue EXCEPT ![s] = spliced]
          /\ IF forceEvicted[s]
             THEN opCancels' = [o \in Ops |->
                        IF o \in Range(spliced) THEN opCancels[o] + 1 ELSE opCancels[o]]
             ELSE UNCHANGED opCancels
          /\ UNCHANGED opState
          /\ totalRemainingCount' = totalRemainingCount + Len(bgQueue'[s])
          /\ protectOOM' = [protectOOM EXCEPT ![s] = Len(m_sessions) > 1]
    /\ idx' = idx + 1
    /\ pc' = IF idx = Len(m_sessions) THEN "policy" ELSE "prepare"
    /\ UNCHANGED <<chgDeleted, candidates, remainingCount, scheduled, count, submitRet, didPaging>>
    /\ UNCHANGED <<forceEvicted, pagingCb, totalExecutedOp, opSess, opAsync,
                   opGood, opLate, opRetry>>
    /\ UNCHANGED <<resVars, waitVars, lockVars, notifying, askedPolicy, admVars, sessVars, poolVars, pagVars>>

\* A prepare step that splices the front queue in front of bgQueue.
PrepareSessionFront ==
    /\ pc = "prepare"
    /\ idx <= Len(m_sessions)
    /\ LET s == m_sessions[idx]
           spliced == queue[s] \o bgQueue[s]
       IN /\ muHeld # s
          /\ queue' = [queue EXCEPT ![s] = <<>>]
          /\ IF forceEvicted[s]
             THEN /\ opCancels' = [o \in Ops |->
                        IF o \in Range(spliced) THEN opCancels[o] + 1 ELSE opCancels[o]]
                  /\ opState' = [o \in Ops |->
                        IF o \in Range(spliced) THEN "cancelled" ELSE opState[o]]
                  /\ bgQueue' = [bgQueue EXCEPT ![s] = <<>>]
             ELSE /\ bgQueue' = [bgQueue EXCEPT ![s] = spliced]
                  /\ UNCHANGED <<opCancels, opState>>
          /\ totalRemainingCount' = totalRemainingCount + Len(bgQueue'[s])
          /\ protectOOM' = [protectOOM EXCEPT ![s] = Len(m_sessions) > 1]
    /\ idx' = idx + 1
    /\ pc' = IF idx = Len(m_sessions) THEN "policy" ELSE "prepare"
    /\ UNCHANGED <<chgDeleted, candidates, remainingCount, scheduled, count, submitRet, didPaging>>
    /\ UNCHANGED <<forceEvicted, pagingCb, totalExecutedOp, opSess, opAsync,
                   opGood, opLate, opRetry>>
    /\ UNCHANGED <<resVars, waitVars, lockVars, notifying, askedPolicy, admVars, sessVars, poolVars, pagVars>>

\* The body of "for (auto &item : m_sessions)": splice the front queue into
\* bgQueue under mu, cancel and clear the queue of a force-evicted session,
\* count what remains, set protectOOM.
PrepareSession ==
    /\ pc = "prepare"
    /\ idx <= Len(m_sessions)
    /\ LET s == m_sessions[idx]
           spliced == bgQueue[s] \o queue[s]
       IN /\ muHeld # s
          /\ queue' = [queue EXCEPT ![s] = <<>>]
          /\ IF forceEvicted[s]
             THEN /\ opCancels' = [o \in Ops |->
                        IF o \in Range(spliced) THEN opCancels[o] + 1 ELSE opCancels[o]]
                  /\ opState' = [o \in Ops |->
                        IF o \in Range(spliced) THEN "cancelled" ELSE opState[o]]
                  /\ bgQueue' = [bgQueue EXCEPT ![s] = <<>>]
             ELSE /\ bgQueue' = [bgQueue EXCEPT ![s] = spliced]
                  /\ UNCHANGED <<opCancels, opState>>
          /\ totalRemainingCount' = totalRemainingCount + Len(bgQueue'[s])
          /\ protectOOM' = [protectOOM EXCEPT ![s] = Len(m_sessions) > 1]
    /\ idx' = idx + 1
    /\ pc' = IF idx = Len(m_sessions) THEN "policy" ELSE "prepare"
    /\ UNCHANGED <<chgDeleted, candidates, remainingCount, scheduled, count, submitRet, didPaging>>
    /\ UNCHANGED <<forceEvicted, pagingCb, totalExecutedOp, opSess, opAsync,
                   opGood, opLate, opRetry>>
    /\ UNCHANGED <<resVars, waitVars, lockVars, notifying, askedPolicy, admVars, sessVars, poolVars, pagVars>>

\* scheduler->notifyPreSchedulingIteration(m_sessions, changeset, &candidates)
\* and changeset.deletedSessions.clear()
NotifyPreSchedulingIteration ==
    /\ pc = "policy"
    /\ candidates' = m_sessions
    /\ chgDeleted' = {}
    /\ remainingCount' = 0
    /\ scheduled' = 0
    /\ idx' = 1
    /\ pc' = IF m_sessions = <<>> THEN "check" ELSE "schedule"
    /\ UNCHANGED <<totalRemainingCount, count, submitRet, didPaging>>
    /\ UNCHANGED <<resVars, waitVars, lockVars, notifying, askedPolicy, admVars, sessVars, itemVars, opVars, poolVars, pagVars>>

PoolFull == Cardinality(pool) >= PoolSize

\* A submitTask that runs the operation itself when the pool is full.
SubmitTaskInline(op) ==
    IF ~Alive(opSess[op])
    THEN /\ submitRet' = [op |-> op, ret |-> "null"]
         /\ opState' = [opState EXCEPT ![op] = "dropped"]
         /\ UNCHANGED <<pool, m_runningTasks, m_noPagingRunningTasks>>
    ELSE IF ~opGood[op]
    THEN /\ submitRet' = [op |-> op, ret |-> "op"]
         /\ UNCHANGED <<pool, opState, m_runningTasks, m_noPagingRunningTasks>>
    ELSE IF PoolFull
    THEN /\ submitRet' = [op |-> op, ret |-> "null"]
         /\ opState' = [opState EXCEPT ![op] = "running"]
         /\ m_runningTasks' = m_runningTasks + 1
         /\ m_noPagingRunningTasks' =
               IF ~opAsync[op] THEN m_noPagingRunningTasks + 1 ELSE m_noPagingRunningTasks
         /\ UNCHANGED pool
    ELSE /\ pool' = pool \cup {op}
         /\ opState' = [opState EXCEPT ![op] = "pool"]
         /\ submitRet' = [op |-> op, ret |-> "null"]
         /\ UNCHANGED <<m_runningTasks, m_noPagingRunningTasks>>

\* ExecutionEngine::submitTask(opItem): the session expired (the operation
\* is discarded, nullptr), the resource context is not good (the operation
\* comes back), the pool is full (the operation comes back), or the pool
\* took the closure (nullptr).
SubmitTaskOf(op) ==
    IF ~Alive(opSess[op])
    THEN /\ submitRet' = [op |-> op, ret |-> "null"]
         /\ opState' = [opState EXCEPT ![op] = "dropped"]
         /\ UNCHANGED <<pool, m_runningTasks, m_noPagingRunningTasks>>
    ELSE IF ~opGood[op] \/ PoolFull
    THEN /\ submitRet' = [op |-> op, ret |-> "op"]
         /\ UNCHANGED <<pool, opState, m_runningTasks, m_noPagingRunningTasks>>
    ELSE /\ pool' = pool \cup {op}
         /\ opState' = [opState EXCEPT ![op] = "pool"]
         /\ submitRet' = [op |-> op, ret |-> "null"]
         /\ UNCHANGED <<m_runningTasks, m_noPagingRunningTasks>>

\* The policy's maybeScheduleFrom calls submitTask for the operation at the
\* head of the candidate's bgQueue; an operation that comes back stays at
\* the head and ends the visit of this candidate.
SubmitTask ==
    /\ pc = "schedule"
    /\ idx <= Len(candidates)
    /\ submitRet.ret # "op"
    /\ LET s == candidates[idx] IN
        /\ bgQueue[s] # <<>>
        /\ LET op == Head(bgQueue[s]) IN
            /\ SubmitTaskOf(op)
            /\ bgQueue' = [bgQueue EXCEPT ![s] =
                              IF submitRet'.ret = "null" THEN Tail(@) ELSE @]
            /\ count' = IF opState'[op] = "pool" THEN count + 1 ELSE count
            /\ opRetry' = [opRetry EXCEPT ![op] =
                              IF @ = "requeued" /\ opState'[op] = "pool"
                              THEN "redispatched" ELSE @]
    /\ UNCHANGED <<queue, forceEvicted, protectOOM, pagingCb, totalExecutedOp,
                   opSess, opAsync, opGood, opCancels, opLate, m_note_has_work>>
    /\ UNCHANGED <<pc, chgDeleted, idx, candidates, totalRemainingCount,
                   remainingCount, scheduled, didPaging>>
    /\ UNCHANGED <<resVars, waitVars, lockVars, notifying, askedPolicy, admVars, sessVars, pagVars>>

\* submitTask called for an operation the policy took out of bgQueue.
SubmitTaskCall(op) ==
    /\ opState[op] = "taken"
    /\ SubmitTaskOf(op)
    /\ UNCHANGED <<opSess, opAsync, opGood, opCancels, opLate, opRetry,
                   m_note_has_work>>
    /\ UNCHANGED <<pc, chgDeleted, idx, candidates, totalRemainingCount,
                   remainingCount, scheduled, count, didPaging>>
    /\ UNCHANGED <<resVars, waitVars, lockVars, notifying, askedPolicy, admVars, sessVars, itemVars, pagVars>>

\* The end of maybeScheduleFrom(item) for the current candidate: the loop
\* adds up remainingCount and scheduled, and goes on
\* to the next candidate unless the policy says stop.
FinishCandidate(shouldContinue) ==
    /\ pc = "schedule"
    /\ idx <= Len(candidates)
    /\ LET s == candidates[idx] IN
        /\ remainingCount' = remainingCount + Len(bgQueue[s])
        /\ scheduled' = scheduled + count
    /\ count' = 0
    /\ submitRet' = NoSubmit
    /\ idx' = idx + 1
    /\ pc' = IF shouldContinue /\ idx < Len(candidates) THEN "schedule" ELSE "check"
    /\ UNCHANGED <<chgDeleted, candidates, totalRemainingCount, didPaging>>
    /\ UNCHANGED <<resVars, waitVars, lockVars, notifying, askedPolicy, admVars, sessVars, itemVars, opVars, poolVars, pagVars>>

\* A maybeWaitForAWhile that keeps the sleep duration when progress was made.
MaybeWaitForAWhileKeep(n) ==
    LET now == clock
        last1 == IF n > 0 THEN now ELSE last
        idle == now - last1
    IN /\ last' = last1
       /\ IF idle <= getBored
          THEN /\ slept' = FALSE
               /\ UNCHANGED <<clock, sleep>>
          ELSE /\ clock + sleep <= MaxClock
               /\ clock' = clock + sleep
               /\ sleep' = 2 * sleep
               /\ slept' = TRUE

\* ExecutionEngine::maybeWaitForAWhile(scheduled); sleep_for(sleep) moves
\* the clock on by sleep.
MaybeWaitForAWhile(n) ==
    LET now == clock
        last1 == IF n > 0 THEN now ELSE last
        sleep1 == IF n > 0 THEN initialSleep ELSE sleep
        idle == now - last1
    IN /\ last' = last1
       /\ IF idle <= getBored
          THEN /\ slept' = FALSE
               /\ sleep' = sleep1
               /\ UNCHANGED clock
          ELSE /\ clock + sleep1 <= MaxClock
               /\ clock' = clock + sleep1
               /\ sleep' = 2 * sleep1
               /\ slept' = TRUE

\* Time passes while the loop body runs; maybeWaitForAWhile is the only
\* reader of the clock.
ClockTick ==
    /\ pc = "check"
    /\ clock + Tick <= MaxClock
    /\ clock' = clock + Tick
    /\ UNCHANGED <<last, sleep, slept, askedPolicy, notifying, lockVars>>
    /\ UNCHANGED <<resVars, engAll>>

\* "if (didPaging) continue; maybeWaitForAWhile(scheduled);
\*  if (!totalRemainingCount) m_note_has_work.wait();"
EndIteration ==
    /\ pc = "backoff"
    /\ MaybeWaitForAWhile(scheduled)
    /\ askedPolicy' = "no"
    /\ UNCHANGED <<notifying, lockVars>>
    /\ pc' = IF totalRemainingCount = 0 THEN "wait" ELSE "swapDel"
    /\ totalRemainingCount' = 0
    /\ remainingCount' = 0
    /\ scheduled' = 0
    /\ idx' = 1
    /\ UNCHANGED <<chgDeleted, candidates, count, submitRet, didPaging>>
    /\ UNCHANGED <<resVars, admVars, sessVars, itemVars, opVars, poolVars, pagVars>>

\* m_note_has_work.wait()
WaitForWork ==
    /\ pc = "wait"
    /\ m_note_has_work
    /\ m_note_has_work' = FALSE
    /\ pc' = "swapDel"
    /\ UNCHANGED <<chgDeleted, idx, candidates, totalRemainingCount,
                   remainingCount, scheduled, count, submitRet, didPaging>>
    /\ UNCHANGED <<m_runningTasks, m_noPagingRunningTasks, pool>>
    /\ UNCHANGED <<resVars, waitVars, lockVars, notifying, askedPolicy, admVars, sessVars, itemVars, opVars, pagVars>>

(***************************************************************************)
(* The closure submitTask hands to the worker pool, and its callbacks.     *)
(***************************************************************************)
\* ExecutionEngine::taskRunning(opItem)
TaskRunning(op) ==
    /\ m_runningTasks' = m_runningTasks + 1
    /\ m_noPagingRunningTasks' =
          IF ~opAsync[op] THEN m_noPagingRunningTasks + 1 ELSE m_noPagingRunningTasks

\* A taskStopped that forgets m_noPagingRunningTasks.
TaskStoppedRunningOnly(op) ==
    /\ m_runningTasks' = m_runningTasks - 1
    /\ UNCHANGED m_noPagingRunningTasks

\* ExecutionEngine::taskStopped(opItem, failed): the counters.
TaskStopped(op) ==
    /\ m_runningTasks' = m_runningTasks - 1
    /\ m_noPagingRunningTasks' =
          IF ~opAsync[op] THEN m_noPagingRunningTasks - 1 ELSE m_noPagingRunningTasks

\* The pool runs the closure: taskRunning and op->run(cbs) when the session
\* can still be lifted, nothing otherwise.
PoolRun(op) ==
    /\ op \in pool
    /\ opState[op] = "pool"
    /\ IF Alive(opSess[op])
       THEN /\ TaskRunning(op)
            /\ opState' = [opState EXCEPT ![op] = "running"]
            /\ UNCHANGED pool
       ELSE /\ opState' = [opState EXCEPT ![op] = "skipped"]
            /\ pool' = pool \ {op}
            /\ UNCHANGED <<m_runningTasks, m_noPagingRunningTasks>>
    /\ UNCHANGED <<opSess, opAsync, opGood, opCancels, opLate, opRetry, m_note_has_work>>
    /\ UNCHANGED <<resVars, waitVars, lockVars, notifying, askedPolicy, admVars, sessVars, schedVars, itemVars, pagVars>>

\* cbs.done: taskStopped(*opItem, false).  totalExecutedOp is counted only
\* under VLOG_IS_ON(2), a verbosity the logger may have or not.  A task
\* whose memFailure() returned false still holds cbs and may call done().
TaskDone(op, vlog2) ==
    /\ opState[op] \in {"running", "oom"}
    /\ TaskStopped(op)
    /\ IF vlog2
       THEN /\ muHeld # opSess[op]
            /\ totalExecutedOp' = [totalExecutedOp EXCEPT ![opSess[op]] = @ + 1]
       ELSE UNCHANGED totalExecutedOp
    /\ opState' = [opState EXCEPT ![op] = "done"]
    /\ pool' = pool \ {op}
    /\ UNCHANGED <<queue, bgQueue, forceEvicted, protectOOM, pagingCb,
                   opSess, opAsync, opGood, opCancels, opLate, opRetry,
                   m_note_has_work>>
    /\ UNCHANGED <<resVars, waitVars, lockVars, notifying, askedPolicy, admVars, sessVars, schedVars, pagVars>>

\* A memFailure that re-queues the operation without taskStopped.
MemFailureNoStop(op) ==
    /\ opState[op] = "running"
    /\ pool' = pool \ {op}
    /\ IF ~Alive(opSess[op]) \/ ~protectOOM[opSess[op]]
       THEN /\ opState' = [opState EXCEPT ![op] = "oom"]
            /\ UNCHANGED <<queue, m_note_has_work, opRetry>>
       ELSE /\ PushToSessionQueue(op, opSess[op])
            /\ opRetry' = [opRetry EXCEPT ![op] = "requeued"]
    /\ UNCHANGED <<m_runningTasks, m_noPagingRunningTasks>>
    /\ UNCHANGED <<bgQueue, forceEvicted, protectOOM, pagingCb,
                   totalExecutedOp, opSess, opAsync, opGood, opCancels, opLate>>
    /\ UNCHANGED <<resVars, waitVars, lockVars, notifying, askedPolicy, admVars, sessVars, schedVars, pagVars>>

\* cbs.memFailure
MemFailure(op) ==
    /\ opState[op] = "running"
    /\ pool' = pool \ {op}
    /\ IF ~Alive(opSess[op]) \/ ~protectOOM[opSess[op]]
       THEN \* return false: the OOM goes to the client
            /\ opState' = [opState EXCEPT ![op] = "oom"]
            /\ UNCHANGED <<queue, m_note_has_work, m_runningTasks,
                           m_noPagingRunningTasks, opRetry>>
       ELSE \* taskStopped(*opItem, true); pushToSessionQueue; return true
            /\ TaskStopped(op)
            /\ PushToSessionQueue(op, opSess[op])
            /\ opRetry' = [opRetry EXCEPT ![op] = "requeued"]
    /\ UNCHANGED <<bgQueue, forceEvicted, protectOOM, pagingCb,
                   totalExecutedOp, opSess, opAsync, opGood, opCancels, opLate>>
    /\ UNCHANGED <<resVars, waitVars, lockVars, notifying, askedPolicy, admVars, sessVars, schedVars, pagVars>>

(***************************************************************************)
(* ExecutionEngine::doPaging(spec, target), for spec = GPU0, target = CPU0.*)
(***************************************************************************)
srcTag == <<"MEMORY", "GPU0">>
dstTag == <<"MEMORY", "CPU0">>

\* candidates after std::sort by usage, descending: any order of the pairs
\* (usage, session) that the comparison allows (equal usages in any order).
SortedCandidates ==
    {q \in [1..Len(m_sessions) -> {<<resourceUsage[s][srcTag], s>> : s \in Range(m_sessions)}] :
        /\ \A i, j \in 1..Len(m_sessions) : i # j => q[i][2] # q[j][2]
        /\ \A i, j \in 1..Len(m_sessions) : i < j => q[i][1] >= q[j][1]}

\* ResourceMonitor::sortVictim(tickets): (usage, ticket) by usage, descending.
SortVictim(ts) ==
    {q \in [1..Cardinality(ts) -> {<<committed[t][srcTag], t>> : t \in ts}] :
        /\ \A i, j \in 1..Cardinality(ts) : i # j => q[i][2] # q[j][2]
        /\ \A i, j \in 1..Cardinality(ts) : i < j => q[i][1] >= q[j][1]}

\* A doPaging whose loop over the candidates starts at the first one.
PgSortFromFirst ==
    /\ pc = "pgSort"
    /\ IF Len(m_sessions) <= 1
       THEN /\ pagRet' = "false"
            /\ pc' = "pgReturn"
            /\ UNCHANGED <<pagCands, pagIdx>>
       ELSE /\ \E q \in SortedCandidates : pagCands' = q
            /\ pagIdx' = 1
            /\ pc' = "pgVisit"
            /\ UNCHANGED pagRet
    /\ UNCHANGED <<victims, released, muHeld, volunteered, evictedNow, evictCalls>>
    /\ UNCHANGED <<chgDeleted, idx, candidates, totalRemainingCount,
                   remainingCount, scheduled, count, submitRet, didPaging>>
    /\ UNCHANGED <<resVars, waitVars, lockVars, notifying, askedPolicy, admVars, sessVars, itemVars, opVars, poolVars>>

\* Step 1: collect (usage, session) for all live sessions and sort; with at
\* most one candidate return false.
PgSort ==
    /\ pc = "pgSort"
    /\ IF Len(m_sessions) <= 1
       THEN /\ pagRet' = "false"
            /\ pc' = "pgReturn"
            /\ UNCHANGED <<pagCands, pagIdx>>
       ELSE /\ \E q \in SortedCandidates : pagCands' = q
            /\ pagIdx' = 2
            /\ pc' = "pgVisit"
            /\ UNCHANGED pagRet
    /\ UNCHANGED <<victims, released, muHeld, volunteered, evictedNow, evictCalls>>
    /\ UNCHANGED <<chgDeleted, idx, candidates, totalRemainingCount,
                   remainingCount, scheduled, count, submitRet, didPaging>>
    /\ UNCHANGED <<resVars, waitVars, lockVars, notifying, askedPolicy, admVars, sessVars, itemVars, opVars, poolVars>>

\* Step 2, head of "for (i = 1; i != candidates.size(); ++i)": the tickets
\* of the session (break when it has none), then its mu and paging callback
\* (continue when it has none).
PgVisit ==
    /\ pc = "pgVisit"
    /\ IF pagIdx > Len(pagCands)
       THEN /\ pc' = "pgForce"
            /\ UNCHANGED <<victims, muHeld, pagIdx>>
       ELSE LET s == pagCands[pagIdx][2] IN
            IF tickets[s] = {}
            THEN /\ pc' = "pgForce"
                 /\ UNCHANGED <<victims, muHeld, pagIdx>>
            ELSE IF ~pagingCb[s]
                 THEN /\ \E v \in SortVictim(tickets[s]) : victims' = v
                      /\ pagIdx' = pagIdx + 1
                      /\ pc' = "pgVisit"
                      /\ UNCHANGED muHeld
                 ELSE /\ \E v \in SortVictim(tickets[s]) : victims' = v
                      /\ muHeld' = s
                      /\ pc' = "pgVictim"
                      /\ UNCHANGED pagIdx
    /\ UNCHANGED <<pagCands, released, pagRet, volunteered, evictedNow, evictCalls>>
    /\ UNCHANGED <<chgDeleted, idx, candidates, totalRemainingCount,
                   remainingCount, scheduled, count, submitRet, didPaging>>
    /\ UNCHANGED <<resVars, waitVars, lockVars, notifying, askedPolicy, admVars, sessVars, itemVars, opVars, poolVars>>

\* PagingCallbacks::volunteer(victim, rctx) of session s returned bytes: the
\* session paged the ticket out (it committed the staged CPU0 memory of the
\* new ticket and gave bytes of GPU0 memory back), or it dropped rctx.
Volunteer(s, usage, victim, bytes) ==
    IF bytes > 0
    THEN /\ free' = [free EXCEPT ![dstTag] = @ - usage, ![srcTag] = @ + bytes]
         /\ committed' = [committed EXCEPT ![nextTicket][dstTag] = @ + usage,
                                           ![victim][srcTag] = @ - bytes]
         /\ resourceUsage' = [resourceUsage EXCEPT ![s][dstTag] = @ + usage,
                                                   ![s][srcTag] = @ - bytes]
         /\ tickets' = [tickets EXCEPT ![s] = @ \cup {nextTicket}]
    ELSE UNCHANGED <<free, committed, resourceUsage, tickets>>

\* Step 2, head of the loop, as far as the tickets lock: "auto g =
\* with_guard(pSess->tickets_mu); if (pSess->tickets.empty()) break;"
PgLockTickets ==
    /\ pc = "pgVisit"
    /\ IF pagIdx > Len(pagCands)
       THEN /\ pc' = "pgForce"
            /\ UNCHANGED tickets_mu
       ELSE LET s == pagCands[pagIdx][2] IN
            /\ tickets_mu[s] = "free"
            /\ IF tickets[s] = {}
               THEN /\ pc' = "pgForce"
                    /\ UNCHANGED tickets_mu
               ELSE /\ pc' = "pgSortVictim"
                    /\ tickets_mu' = [tickets_mu EXCEPT ![s] = "sched"]
    /\ UNCHANGED commitPc
    /\ UNCHANGED <<pagCands, pagIdx, victims, released, muHeld, pagRet, volunteered,
                   evictedNow, evictCalls>>
    /\ UNCHANGED <<chgDeleted, idx, candidates, totalRemainingCount,
                   remainingCount, scheduled, count, submitRet, didPaging>>
    /\ UNCHANGED <<resVars, waitVars, notifying, askedPolicy, admVars, sessVars,
                   itemVars, opVars, poolVars>>

\* "victims = m_resMonitor.sortVictim(pSess->tickets)" under tickets_mu: the
\* monitor mutex is needed; then tickets_mu is released, mu is taken and the
\* paging callback is looked at.
PgSortVictim ==
    /\ pc = "pgSortVictim"
    /\ scope = NoScope
    /\ LET s == pagCands[pagIdx][2] IN
       /\ \E v \in SortVictim(tickets[s]) : victims' = v
       /\ tickets_mu' = [tickets_mu EXCEPT ![s] = "free"]
       /\ IF ~pagingCb[s]
          THEN /\ pagIdx' = pagIdx + 1
               /\ pc' = "pgVisit"
               /\ UNCHANGED muHeld
          ELSE /\ muHeld' = s
               /\ pc' = "pgVictim"
               /\ UNCHANGED pagIdx
    /\ UNCHANGED commitPc
    /\ UNCHANGED <<pagCands, released, pagRet, volunteered, evictedNow, evictCalls>>
    /\ UNCHANGED <<chgDeleted, idx, candidates, totalRemainingCount,
                   remainingCount, scheduled, count, submitRet, didPaging>>
    /\ UNCHANGED <<resVars, waitVars, notifying, askedPolicy, admVars, sessVars,
                   itemVars, opVars, poolVars>>

\* A victims loop that goes on to force eviction when the pre-allocation fails.
PgVictimGoOn ==
    /\ pc = "pgVictim"
    /\ victims # <<>> => scope = NoScope
    /\ IF victims = <<>>
       THEN /\ muHeld' = "none"
            /\ pagIdx' = pagIdx + 1
            /\ pc' = "pgVisit"
            /\ UNCHANGED <<victims, released, pagRet, volunteered, nextTicket,
                           free, committed, resourceUsage, tickets>>
       ELSE LET s == pagCands[pagIdx][2]
                usage == Head(victims)[1]
                victim == Head(victims)[2]
            IN IF ~PreAllocateFits(dstTag, usage)
               THEN /\ UNCHANGED pagRet
                    /\ muHeld' = "none"
                    /\ pc' = "pgForce"
                    /\ UNCHANGED <<victims, released, pagIdx, volunteered, nextTicket,
                                   free, committed, resourceUsage, tickets>>
               ELSE \E bytes \in {0, usage} :
                    /\ nextTicket <= MaxTicket
                    /\ nextTicket' = nextTicket + 1
                    /\ Volunteer(s, usage, victim, bytes)
                    /\ volunteered' = volunteered \cup {s}
                    /\ released' = released + bytes
                    /\ victims' = Tail(victims)
                    /\ UNCHANGED pagIdx
                    /\ IF released' > 0
                       THEN /\ pagRet' = "true"
                            /\ muHeld' = "none"
                            /\ pc' = "pgReturn"
                       ELSE /\ pc' = "pgVictim"
                            /\ UNCHANGED <<pagRet, muHeld>>
    /\ UNCHANGED <<pagCands, evictedNow, evictCalls>>
    /\ UNCHANGED <<limits, staging, rctx, scope, waitVars, lockVars, notifying, askedPolicy>>
    /\ UNCHANGED <<chgDeleted, idx, candidates, totalRemainingCount,
                   remainingCount, scheduled, count, submitRet, didPaging>>
    /\ UNCHANGED <<admVars, sessVars, itemVars, opVars, poolVars>>

\* Body of "for (auto [usage, victim] : victims)": pre-allocate usage on the
\* target device (return false when that fails), ask the session to
\* volunteer, return true once something was released.
PgVictim ==
    /\ pc = "pgVictim"
    /\ victims # <<>> => scope = NoScope
    /\ IF victims = <<>>
       THEN /\ muHeld' = "none"
            /\ pagIdx' = pagIdx + 1
            /\ pc' = "pgVisit"
            /\ UNCHANGED <<victims, released, pagRet, volunteered, nextTicket,
                           free, committed, resourceUsage, tickets>>
       ELSE LET s == pagCands[pagIdx][2]
                usage == Head(victims)[1]
                victim == Head(victims)[2]
            IN IF ~PreAllocateFits(dstTag, usage)
               THEN /\ pagRet' = "false"
                    /\ muHeld' = "none"
                    /\ pc' = "pgReturn"
                    /\ UNCHANGED <<victims, released, pagIdx, volunteered, nextTicket,
                                   free, committed, resourceUsage, tickets>>
               ELSE \E bytes \in {0, usage} :
                    /\ nextTicket <= MaxTicket
                    /\ nextTicket' = nextTicket + 1
                    /\ Volunteer(s, usage, victim, bytes)
                    /\ volunteered' = volunteered \cup {s}
                    /\ released' = released + bytes
                    /\ victims' = Tail(victims)
                    /\ UNCHANGED pagIdx
                    /\ IF released' > 0
                       THEN /\ pagRet' = "true"
                            /\ muHeld' = "none"
                            /\ pc' = "pgReturn"
                       ELSE /\ pc' = "pgVictim"
                            /\ UNCHANGED <<pagRet, muHeld>>
    /\ UNCHANGED <<pagCands, evictedNow, evictCalls>>
    /\ UNCHANGED <<limits, staging, rctx, scope, waitVars, lockVars, notifying, askedPolicy>>
    /\ UNCHANGED <<chgDeleted, idx, candidates, totalRemainingCount,
                   remainingCount, scheduled, count, submitRet, didPaging>>
    /\ UNCHANGED <<admVars, sessVars, itemVars, opVars, poolVars>>

\* A force-evict loop that picks the last candidate with paging callbacks.
ForceEvictLast ==
    LET withCb == {i \in 1..Len(pagCands) : pagingCb[pagCands[i][2]]} IN
    IF withCb = {} THEN {}
    ELSE {pagCands[CHOOSE i \in withCb : \A j \in withCb : i >= j][2]}

\* A force-evict loop without the return: every candidate with paging
\* callbacks is evicted.
ForceEvictAll ==
    {pagCands[i][2] : i \in {j \in 1..Len(pagCands) : pagingCb[pagCands[j][2]]}}

\* "Forcely kill one session": the sessions the loop over candidates evicts.
ForceEvictTargets ==
    LET withCb == {i \in 1..Len(pagCands) : pagingCb[pagCands[i][2]]} IN
    IF withCb = {} THEN {}
    ELSE {pagCands[CHOOSE i \in withCb : \A j \in withCb : i <= j][2]}

PgForce ==
    /\ pc = "pgForce"
    /\ \A s \in ForceEvictTargets : evictCalls[s] < MaxEvict
    /\ protectOOM' = [s \in Sessions |->
                        IF s \in ForceEvictTargets THEN FALSE ELSE protectOOM[s]]
    /\ forceEvicted' = [s \in Sessions |->
                        IF s \in ForceEvictTargets THEN TRUE ELSE forceEvicted[s]]
    /\ evictCalls' = [s \in Sessions |->
                        IF s \in ForceEvictTargets THEN evictCalls[s] + 1 ELSE evictCalls[s]]
    /\ evictedNow' = evictedNow \cup ForceEvictTargets
    /\ pagRet' = IF ForceEvictTargets = {} THEN "false" ELSE "true"
    /\ pc' = "pgReturn"
    /\ UNCHANGED <<pagCands, pagIdx, victims, released, muHeld, volunteered>>
    /\ UNCHANGED <<queue, bgQueue, pagingCb, totalExecutedOp>>
    /\ UNCHANGED <<chgDeleted, idx, candidates, totalRemainingCount,
                   remainingCount, scheduled, count, submitRet, didPaging>>
    /\ UNCHANGED <<resVars, waitVars, lockVars, notifying, askedPolicy, admVars, sessVars, opVars, poolVars>>

\* A check that pages although tasks that cannot be paged are running.
CheckPagingBusy(insufficientMemory) ==
    /\ pc = "check"
    /\ LET noProgress == remainingCount > 0 /\ scheduled = 0
       IN /\ IF noProgress /\ insufficientMemory /\ Len(m_sessions) > 1
             THEN /\ pc' = "pgSort"
                  /\ pagRet' = "running"
             ELSE /\ pc' = "backoff"
                  /\ UNCHANGED pagRet
          /\ askedPolicy' = IF ~noProgress THEN "no"
                            ELSE IF insufficientMemory THEN "insufficient"
                            ELSE "sufficient"
    /\ didPaging' = FALSE
    /\ UNCHANGED <<pagCands, pagIdx, victims, released, muHeld, volunteered,
                   evictedNow, evictCalls>>
    /\ UNCHANGED <<chgDeleted, idx, candidates, totalRemainingCount,
                   remainingCount, scheduled, count, submitRet>>
    /\ UNCHANGED <<resVars, waitVars, lockVars, notifying, admVars, sessVars, itemVars, opVars, poolVars>>

\* "bool noProgress = ...; if (noProgress && scheduler->insufficientMemory(dev))
\*  if (m_sessions.size() > 1) didPaging = doPaging(dev, devices::CPU0);"
CheckPaging(insufficientMemory) ==
    /\ pc = "check"
    /\ LET noProgress == remainingCount > 0 /\ scheduled = 0
                         /\ m_noPagingRunningTasks = 0
       IN /\ IF noProgress /\ insufficientMemory /\ Len(m_sessions) > 1
             THEN /\ pc' = "pgSort"
                  /\ pagRet' = "running"
             ELSE /\ pc' = "backoff"
                  /\ UNCHANGED pagRet
          /\ askedPolicy' = IF ~noProgress THEN "no"
                            ELSE IF insufficientMemory THEN "insufficient"
                            ELSE "sufficient"
    /\ didPaging' = FALSE
    /\ UNCHANGED <<pagCands, pagIdx, victims, released, muHeld, volunteered,
                   evictedNow, evictCalls>>
    /\ UNCHANGED <<chgDeleted, idx, candidates, totalRemainingCount,
                   remainingCount, scheduled, count, submitRet>>
    /\ UNCHANGED <<resVars, waitVars, lockVars, notifying, admVars, sessVars, itemVars, opVars, poolVars>>

\* doPaging returns to scheduleLoop: "if (didPaging) continue;"
PagingReturn ==
    /\ pc = "pgReturn"
    /\ didPaging' = (pagRet = "true")
    /\ pc' = IF pagRet = "true" THEN "swapDel" ELSE "backoff"
    /\ IF pagRet = "true"
       THEN /\ totalRemainingCount' = 0
            /\ remainingCount' = 0
            /\ scheduled' = 0
            /\ idx' = 1
       ELSE UNCHANGED <<totalRemainingCount, remainingCount, scheduled, idx>>
    /\ pagCands' = <<>>
    /\ pagIdx' = 0
    /\ victims' = <<>>
    /\ released' = 0
    /\ pagRet' = "idle"
    /\ volunteered' = {}
    /\ evictedNow' = {}
    /\ askedPolicy' = IF pagRet = "true" THEN "no" ELSE askedPolicy
    /\ UNCHANGED <<muHeld, evictCalls>>
    /\ UNCHANGED <<chgDeleted, candidates, count, submitRet>>
    /\ UNCHANGED <<resVars, waitVars, lockVars, notifying, admVars, sessVars, itemVars, opVars, poolVars>>

(***************************************************************************)
(* Initial states.                                                         *)
(***************************************************************************)
InitEng ==
    /\ ectx = [x \in Sessions |-> NoContext]
    /\ m_newSessions = <<>>
    /\ m_sessions = <<>>
    /\ m_deletedSessions = {}
    /\ m_note_has_work = FALSE
    /\ m_runningTasks = 0
    /\ m_noPagingRunningTasks = 0
    /\ pool = {}
    /\ pc = "swapDel"
    /\ chgDeleted = {}
    /\ idx = 1
    /\ candidates = <<>>
    /\ totalRemainingCount = 0
    /\ remainingCount = 0
    /\ scheduled = 0
    /\ count = 0
    /\ submitRet = NoSubmit
    /\ didPaging = FALSE
    /\ queue = [s \in Sessions |-> <<>>]
    /\ bgQueue = [s \in Sessions |-> <<>>]
    /\ forceEvicted = [s \in Sessions |-> FALSE]
    /\ protectOOM = [s \in Sessions |-> FALSE]
    /\ pagingCb = [s \in Sessions |-> FALSE]
    /\ totalExecutedOp = [s \in Sessions |-> 0]
    /\ opSess = [o \in Ops |-> "null"]
    /\ opState = [o \in Ops |-> "idle"]
    /\ opAsync = [o \in Ops |-> FALSE]
    /\ opGood = [o \in Ops |-> FALSE]
    /\ opCancels = [o \in Ops |-> 0]
    /\ opLate = [o \in Ops |-> FALSE]
    /\ opRetry = [o \in Ops |-> "no"]

InitPag ==
    /\ pagCands = <<>>
    /\ pagIdx = 0
    /\ victims = <<>>
    /\ released = 0
    /\ muHeld = "none"
    /\ pagRet = "idle"
    /\ volunteered = {}
    /\ evictedNow = {}
    /\ evictCalls = [s \in Sessions |-> 0]

InitWait ==
    /\ askedPolicy = "no"
    /\ notifying = {}
    /\ tickets_mu = [s \in Sessions |-> "free"]
    /\ commitPc = "idle"
    /\ clock = 0
    /\ last = 0
    /\ sleep = initialSleep
    /\ slept = FALSE

InitAll == InitRes /\ InitAdm /\ InitEng /\ InitPag /\ InitWait


NextRes ==
    \/ \E c \in Ctxs, dev \in Devices, n \in Quantities : InitializeStaging(c, dev, n)
    \/ \E c \in Ctxs : ReleaseStaging(c)
    \/ \E c \in Ctxs, type \in ResourceTypes : AllocStaged(c, type)
    \/ \E c \in Ctxs, type \in ResourceTypes, n \in Quantities : AllocNum(c, type, n)
    \/ Commit
    \/ Rollback
    \/ \E c \in Ctxs, type \in ResourceTypes, n \in Quantities : Dealloc(c, type, n)

SpecRes == InitAll /\ [][NextRes]_vars

(***************************************************************************)
(* Specifications.                                                         *)
(***************************************************************************)
NextAdmit ==
    \/ \E x \in Sessions, rm \in ResourceMaps : CreateSessionOffer(x, rm)
    \/ \E x \in Sessions : AcceptOffer(x)
    \/ \E x \in Sessions : DeleteSession(x)
    \/ \E x \in Sessions : DestroyData(x)

SpecAdmit == InitAll /\ [][NextAdmit]_vars

\* One call doPaging(GPU0, CPU0) by the scheduling thread, from any set of
\* two or three live sessions holding tickets with committed GPU0 memory.
InitPaging ==
    /\ InitAdm
    /\ InitPag
    /\ InitWait
    /\ \E live \in {<<"A", "B">>, <<"A", "B", "C">>}, cbs \in SUBSET Sessions,
          k \in 0..PagLimit, cpu \in 0..PagLimit :
       \E own \in [1..k -> Range(live)], amt \in [1..k -> 0..PagLimit] :
        /\ SumOver(amt, 1..k) <= PagLimit
        /\ cbs \subseteq Range(live)
        /\ m_sessions = live
        /\ pagingCb = [s \in Sessions |-> s \in cbs]
        /\ protectOOM = [s \in Sessions |-> s \in Range(live)]
        /\ ectx = [s \in Sessions |->
                     IF s \in Range(live)
                     THEN [state |-> "accepted", item |-> TRUE, resOffer |-> 0,
                           predicted |-> ZeroRes]
                     ELSE NoContext]
        /\ limits = [t \in Tags |-> IF t = srcTag THEN PagLimit ELSE cpu]
        /\ free = [t \in Tags |-> IF t = srcTag THEN PagLimit - SumOver(amt, 1..k) ELSE cpu]
        /\ committed = [t \in Tickets |->
                          [g \in Tags |-> IF t <= k /\ g = srcTag THEN amt[t] ELSE 0]]
        /\ tickets = [s \in Sessions |-> {t \in 1..k : own[t] = s}]
        /\ resourceUsage = [s \in Sessions |->
                              [g \in Tags |-> IF g = srcTag
                                              THEN SumOver(amt, {t \in 1..k : own[t] = s})
                                              ELSE 0]]
        /\ nextTicket = k + 1
    /\ staging = [t \in Tickets |-> ZeroRes]
    /\ rctx = [c \in Ctxs |-> [ticket |-> 0, hasStaging |-> FALSE,
                               spec |-> "GPU0", session |-> CtxSession(c)]]
    /\ scope = NoScope
    /\ m_newSessions = <<>>
    /\ m_deletedSessions = {}
    /\ m_note_has_work = FALSE
    /\ m_runningTasks = 0
    /\ m_noPagingRunningTasks = 0
    /\ pool = {}
    /\ pc = "pgSort"
    /\ chgDeleted = {}
    /\ idx = 1
    /\ candidates = m_sessions
    /\ totalRemainingCount = 0
    /\ remainingCount = 0
    /\ scheduled = 0
    /\ count = 0
    /\ submitRet = NoSubmit
    /\ didPaging = FALSE
    /\ queue = [s \in Sessions |-> <<>>]
    /\ bgQueue = [s \in Sessions |-> <<>>]
    /\ forceEvicted = [s \in Sessions |-> FALSE]
    /\ totalExecutedOp = [s \in Sessions |-> 0]
    /\ opSess = [o \in Ops |-> "null"]
    /\ opState = [o \in Ops |-> "idle"]
    /\ opAsync = [o \in Ops |-> FALSE]
    /\ opGood = [o \in Ops |-> FALSE]
    /\ opCancels = [o \in Ops |-> 0]
    /\ opLate = [o \in Ops |-> FALSE]
    /\ opRetry = [o \in Ops |-> "no"]

NextPaging ==
    \/ PgSort
    \/ PgVisit
    \/ PgVictim
    \/ PgForce

SpecPaging == InitPaging /\ [][NextPaging]_vars

EngSessions == {"A", "B"}

\* Clients that create, accept and delete sessions and submit operations,
\* the scheduling loop and the worker pool; the policy never reports
\* insufficient memory, so the loop does not page.
NextLifecycle ==
    \/ \E x \in EngSessions : CreateSessionOffer(x, ZeroRes)
    \/ \E x \in EngSessions : AcceptOffer(x)
    \/ \E x \in EngSessions : DeleteSession(x)
    \/ \E x \in EngSessions, op \in Ops : EnqueueOperation(x, op, FALSE, TRUE)
    \/ SwapDeleted
    \/ RemoveDeleted
    \/ SpliceNew
    \/ PrepareSession
    \/ NotifyPreSchedulingIteration
    \/ SubmitTask
    \/ \E shouldContinue \in BOOLEAN : FinishCandidate(shouldContinue)
    \/ CheckPaging(FALSE)
    \/ EndIteration
    \/ WaitForWork
    \/ \E op \in Ops : PoolRun(op)
    \/ \E op \in Ops, vlog2 \in BOOLEAN : TaskDone(op, vlog2)
    \/ \E op \in Ops : MemFailure(op)

SpecLifecycle == InitAll /\ [][NextLifecycle]_vars

\* Sessions that stay (no client deletes one) and hold no memory tickets,
\* with paging: the scheduling loop, the worker pool, the task callbacks and
\* doPaging, which finds no ticket to page out and goes on to force-evict.
NextEngine ==
    \/ \E x \in EngSessions : CreateSessionOffer(x, ZeroRes)
    \/ \E x \in EngSessions : AcceptOffer(x)
    \/ \E x \in EngSessions : RegisterPagingCallbacks(x)
    \/ \E x \in EngSessions, op \in Ops : EnqueueOperation(x, op, FALSE, TRUE)
    \/ SwapDeleted
    \/ RemoveDeleted
    \/ SpliceNew
    \/ PrepareSession
    \/ NotifyPreSchedulingIteration
    \/ SubmitTask
    \/ \E shouldContinue \in BOOLEAN : FinishCandidate(shouldContinue)
    \/ \E insufficientMemory \in BOOLEAN : CheckPaging(insufficientMemory)
    \/ PgSort
    \/ PgVisit
    \/ PgForce
    \/ PagingReturn
    \/ EndIteration
    \/ WaitForWork
    \/ \E op \in Ops : PoolRun(op)
    \/ \E op \in Ops, vlog2 \in BOOLEAN : TaskDone(op, vlog2)
    \/ \E op \in Ops : MemFailure(op)

SpecEngine == InitAll /\ [][NextEngine]_vars


\* Calls of submitTask for operations the policy took out of bgQueue, for
\* every combination of expired or live session, good or failed resource
\* context, sync or async operation, with the worker pool running what it
\* accepted.
InitSubmit ==
    /\ InitRes
    /\ InitAdm
    /\ InitPag
    /\ InitWait
    /\ \E live \in {<<"A">>, <<"A", "B">>} :
        /\ m_sessions = live
        /\ candidates = live
        /\ ectx = [s \in Sessions |->
                     IF s \in Range(live)
                     THEN [state |-> "accepted", item |-> TRUE, resOffer |-> 0,
                           predicted |-> ZeroRes]
                     ELSE NoContext]
        /\ protectOOM = [s \in Sessions |-> s \in Range(live) /\ Len(live) > 1]
    /\ opSess \in [Ops -> EngSessions]
    /\ opAsync \in [Ops -> BOOLEAN]
    /\ opGood \in [Ops -> BOOLEAN]
    /\ opState = [o \in Ops |-> "taken"]
    /\ opCancels = [o \in Ops |-> 0]
    /\ opLate = [o \in Ops |-> FALSE]
    /\ opRetry = [o \in Ops |-> "no"]
    /\ m_newSessions = <<>>
    /\ m_deletedSessions = {}
    /\ m_note_has_work = FALSE
    /\ m_runningTasks = 0
    /\ m_noPagingRunningTasks = 0
    /\ pool = {}
    /\ pc = "schedule"
    /\ chgDeleted = {}
    /\ idx = 1
    /\ totalRemainingCount = 0
    /\ remainingCount = 0
    /\ scheduled = 0
    /\ count = 0
    /\ submitRet = NoSubmit
    /\ didPaging = FALSE
    /\ queue = [s \in Sessions |-> <<>>]
    /\ bgQueue = [s \in Sessions |-> <<>>]
    /\ forceEvicted = [s \in Sessions |-> FALSE]
    /\ pagingCb = [s \in Sessions |-> FALSE]
    /\ totalExecutedOp = [s \in Sessions |-> 0]

NextSubmit ==
    \/ \E op \in Ops : SubmitTaskCall(op)
    \/ \E op \in Ops : PoolRun(op)
    \/ \E op \in Ops, vlog2 \in BOOLEAN : TaskDone(op, vlog2)
    \/ \E op \in Ops : MemFailure(op)

SpecSubmit == InitSubmit /\ [][NextSubmit]_vars

\* The scheduling loop of one session with a clock: iterations that
\* schedule, iterations that find the pool full, and the time between them.
NextBackoff ==
    \/ CreateSessionOffer("A", ZeroRes)
    \/ AcceptOffer("A")
    \/ \E op \in Ops : EnqueueOperation("A", op, FALSE, TRUE)
    \/ SwapDeleted
    \/ RemoveDeleted
    \/ SpliceNew
    \/ PrepareSession
    \/ NotifyPreSchedulingIteration
    \/ SubmitTask
    \/ \E shouldContinue \in BOOLEAN : FinishCandidate(shouldContinue)
    \/ CheckPaging(FALSE)
    \/ ClockTick
    \/ EndIteration
    \/ WaitForWork
    \/ \E op \in Ops : PoolRun(op)
    \/ \E op \in Ops, vlog2 \in BOOLEAN : TaskDone(op, vlog2)

SpecBackoff == InitAll /\ [][NextBackoff]_vars

WakeSessions == {"A"}

\* One call of doPaging by the scheduling thread while a worker thread uses
\* the ResourceContext of a session: the monitor mutex, held by an open
\* OperationScope, and the tickets_mu of the sessions.
InitLocks ==
    /\ InitPaging
    /\ Len(m_sessions) = 2
    /\ nextTicket <= MaxIssue

NextLocks ==
    \/ PgSort
    \/ PgLockTickets
    \/ PgSortVictim
    \/ PgVictim
    \/ PgForce
    \/ \E c \in Ctxs, n \in Quantities : InitializeStaging(c, "GPU0", n)
    \/ \E c \in Ctxs : ReleaseStaging(c)
    \/ \E c \in Ctxs : AllocStaged(c, "MEMORY")
    \/ CommitUsage
    \/ CommitNotify
    \/ Rollback

SpecLocks == InitLocks /\ [][NextLocks]_vars

\* The scheduling thread, from the change set to the wait on m_note_has_work.
SchedulerStep ==
    \/ SwapDeleted
    \/ RemoveDeleted
    \/ SpliceNew
    \/ PrepareSession
    \/ NotifyPreSchedulingIteration
    \/ SubmitTask
    \/ \E shouldContinue \in BOOLEAN : FinishCandidate(shouldContinue)
    \/ CheckPaging(FALSE)
    \/ EndIteration
    \/ WaitForWork

\* Clients whose pushToSessionQueue is two steps, the push under sess->mu
\* and the notify, interleaved with the scheduling thread. The scheduling
\* thread keeps running and a caller that has pushed goes on to notify.
NextWake ==
    \/ \E x \in WakeSessions : CreateSessionOffer(x, ZeroRes)
    \/ \E x \in WakeSessions : AcceptOffer(x)
    \/ \E x \in WakeSessions, op \in Ops : EnqueueOperationPush(x, op, FALSE, TRUE)
    \/ \E op \in Ops : NotifyHasWork(op)
    \/ SchedulerStep
    \/ \E op \in Ops : PoolRun(op)
    \/ \E op \in Ops, vlog2 \in BOOLEAN : TaskDone(op, vlog2)

SpecWake ==
    /\ InitAll
    /\ [][NextWake]_vars
    /\ WF_vars(SchedulerStep)
    /\ WF_vars(\E op \in Ops : NotifyHasWork(op))


(***************************************************************************)
(* C1  Conservation: for every resource key, the committed quantities of   *)
(* all tickets plus the staged quantities of all tickets plus the free     *)
(* quantity equal the key's limit, in every reachable state.               *)
(***************************************************************************)
CommittedOn(k) == SumOver([t \in Tickets |-> committed[t][k]], Tickets)
StagedOn(k) == SumOver([t \in Tickets |-> staging[t][k]], Tickets)

Conservation ==
    \A k \in Tags : CommittedOn(k) + StagedOn(k) + free[k] = limits[k]

\* Committed and staged quantities are out together, after a dealloc that
\* returned a quantity and one that the monitor refused.
ConservationWitness ==
    \E k \in Tags :
        /\ CommittedOn(k) > 0
        /\ StagedOn(k) > 0
        /\ \E s \in Sessions : resourceUsage[s][k] < 0

(***************************************************************************)
(* C2  Non-negativity: no resource quantity is ever negative: the          *)
(* monitor's free, staged and committed amounts, and every session's       *)
(* resourceUsage[tag], also after a dealloc of a quantity that commit()    *)
(* never credited to the session.                                          *)
(***************************************************************************)
NonNegativity ==
    /\ \A k \in Tags : free[k] >= 0
    /\ \A t \in Tickets, k \in Tags : staging[t][k] >= 0 /\ committed[t][k] >= 0
    /\ \A s \in Sessions, k \in Tags : resourceUsage[s][k] >= 0

(***************************************************************************)
(* C3  Admission: the aggregate predicted usage of the admitted offers     *)
(* never exceeds the capacity on any key; a createSessionOffer whose       *)
(* prediction would exceed the capacity returns an empty context, creates  *)
(* no session and leaves the aggregate unchanged, and one that fits is     *)
(* admitted (capacity 1000: 600 is admitted, then 500 is rejected and the  *)
(* aggregate stays 600).                                                   *)
(***************************************************************************)
ReservedOn(k) == SumOver([o \in Offers |-> offers[o][k]], Offers)

Exceeds(rm) == \E k \in Tags : aggregate[k] + rm[k] > Capacity

AggregateWithinCapacity ==
    \A k \in Tags : aggregate[k] <= Capacity /\ aggregate[k] = ReservedOn(k)

\* What one call of createSessionOffer on context x does.
OfferStep(x) ==
    ectx[x].state = "none" /\ ectx'[x].state # "none" =>
        IF Exceeds(ectx'[x].predicted)
        THEN /\ ectx'[x].state = "empty"
             /\ ~ectx'[x].item
             /\ ectx'[x].resOffer = 0
             /\ aggregate' = aggregate
             /\ offers' = offers
             /\ <<m_newSessions, m_sessions, m_deletedSessions>>' =
                    <<m_newSessions, m_sessions, m_deletedSessions>>
        ELSE /\ ectx'[x].state = "offered"
             /\ ectx'[x].item
             /\ aggregate' = [k \in Tags |-> aggregate[k] + ectx'[x].predicted[k]]

Admission ==
    /\ []AggregateWithinCapacity
    /\ [][\A x \in Sessions : OfferStep(x)]_vars

\* 600 was admitted on GPU0, 500 was then rejected, the aggregate is 600.
AdmissionWitness ==
    \E x, y \in Sessions :
        /\ ectx[x].state = "offered" /\ ectx[x].predicted[srcTag] = 600
        /\ ectx[y].state = "empty" /\ ectx[y].predicted[srcTag] = 500
        /\ ~ectx[y].item
        /\ aggregate[srcTag] = 600

(***************************************************************************)
(* C4  Session collections: every SessionItem is pending-new (in           *)
(* m_newSessions), live (in m_sessions), pending-delete (in                *)
(* m_deletedSessions) or deleted (in none of them), and it is never in two *)
(* of the three collections at once.                                       *)
(***************************************************************************)
InNew(s) == s \in Range(m_newSessions)
InLive(s) == s \in Range(m_sessions)
InDeleted(s) == s \in m_deletedSessions

Occurrences(q, s) == Cardinality({i \in 1..Len(q) : q[i] = s})

Queued(op) == \E s \in Sessions : op \in Range(queue[s]) \cup Range(bgQueue[s])

EvictedQueueEmpty ==
    \A s \in Sessions :
        forceEvicted[s] /\ InLive(s) /\ pc \in {"policy", "schedule"}
            => bgQueue[s] = <<>>

CancelledAtMostOnce == \A op \in Ops : opCancels[op] <= 1

\* The step of the prepare loop on a force-evicted session.
CancelStep ==
    pc = "prepare" /\ idx' = idx + 1 /\ forceEvicted[m_sessions[idx]] =>
        LET s == m_sessions[idx] IN
        /\ bgQueue'[s] = <<>> /\ queue'[s] = <<>>
        /\ \A op \in Ops :
            IF op \in Range(bgQueue[s]) \cup Range(queue[s])
            THEN opCancels'[op] = opCancels[op] + 1 /\ opState'[op] = "cancelled"
            ELSE opCancels'[op] = opCancels[op]

\* No operation enters the pool for a force-evicted session, and a
\* cancelled operation goes nowhere.
NoDispatchStep ==
    \A op \in Ops :
        /\ opState[op] # "pool" /\ opState'[op] = "pool" => ~forceEvicted[opSess[op]]
        /\ opState[op] = "cancelled" => opState'[op] = "cancelled"

ForceEvictCancels ==
    /\ []EvictedQueueEmpty
    /\ []CancelledAtMostOnce
    /\ [][CancelStep]_vars
    /\ [][NoDispatchStep]_vars

\* Both operations of a force-evicted session were cancelled and the policy
\* is about to be consulted.
ForceEvictCancelsWitness ==
    \E s \in Sessions :
        /\ forceEvicted[s] /\ InLive(s) /\ pc = "policy"
        /\ \A op \in Ops : opSess[op] = s /\ opState[op] = "cancelled" /\ opCancels[op] = 1

(***************************************************************************)
(* C7  Largest consumer preserved: in a call of doPaging, for every set of *)
(* live sessions and usages, a session with the greatest memory usage on   *)
(* the source device never has volunteer() invoked.                        *)
(***************************************************************************)
\* The usage doPaging read for the session at its step 1.1.
UsageAtCall(s) ==
    LET i == CHOOSE j \in 1..Len(pagCands) : pagCands[j][2] = s IN pagCands[i][1]

Sorted(s) == \E j \in 1..Len(pagCands) : pagCands[j][2] = s

Greatest(s) ==
    Sorted(s) /\ \A t \in Sessions : Sorted(t) => UsageAtCall(s) >= UsageAtCall(t)

GreatestNeverAsked == \A s \in Sessions : Greatest(s) => s \notin volunteered

\* As the code has it: the session the sort placed first is spared, which
\* is the session with the greatest usage when only one session has it.
FirstSortedNeverAsked ==
    pagCands # <<>> =>
        /\ pagCands[1][2] \notin volunteered
        /\ \A s \in Sessions :
              (Sorted(s) /\ \A t \in Sessions \ {s} : Sorted(t) => UsageAtCall(s) > UsageAtCall(t))
                  => s \notin volunteered

\* Another session was asked while the one session with the greatest usage,
\* which has tickets and paging callbacks too, was not.
FirstSortedNeverAskedWitness ==
    /\ pc = "pgReturn"
    /\ volunteered # {}
    /\ \E s \in Sessions :
        /\ Sorted(s) /\ \A t \in Sessions \ {s} : Sorted(t) => UsageAtCall(s) > UsageAtCall(t)
        /\ pagingCb[s] /\ tickets[s] # {}
        /\ s \notin volunteered

(***************************************************************************)
(* C8  Force-evict scenario: two live sessions, A with the larger usage on *)
(* GPU0 and B with the smaller, B has paging callbacks and its volunteer   *)
(* returns 0 every time: doPaging(GPU0, CPU0) force-evicts B (sets         *)
(* B.forceEvicted, calls B's forceEvicted callback) and does not           *)
(* force-evict A, whether or not A has registered paging callbacks.        *)
(***************************************************************************)
\* doPaging is about to return from the scenario, a the larger session and
\* b the smaller one.
EvictScenario(a, b) ==
    /\ pc = "pgReturn"
    /\ Range(m_sessions) = {a, b}
    /\ Sorted(a) /\ Sorted(b) /\ UsageAtCall(a) > UsageAtCall(b)
    /\ pagingCb[b]
    /\ b \in volunteered
    /\ released = 0

Evicted(s) == forceEvicted[s] /\ evictCalls[s] = 1 /\ evictedNow = {s}

EvictCallsOfCall == SumOver(evictCalls, Sessions)

SingleForceEvict ==
    /\ Cardinality(evictedNow) <= 1
    /\ Cardinality({s \in Sessions : forceEvicted[s]}) <= 1
    /\ EvictCallsOfCall <= 1
    /\ evictedNow = {s \in Sessions : forceEvicted[s]}
    /\ released > 0 => evictedNow = {} /\ EvictCallsOfCall = 0

\* Three sessions with paging callbacks, volunteers that released nothing,
\* and one session evicted.
SingleForceEvictWitness ==
    /\ pc = "pgReturn"
    /\ Cardinality({s \in Range(m_sessions) : pagingCb[s]}) = 3
    /\ Cardinality(volunteered) = 2
    /\ released = 0
    /\ Cardinality(evictedNow) = 1
    /\ EvictCallsOfCall = 1

(***************************************************************************)
(* C10  OOM retry: when a running operation calls memFailure(), the        *)
(* callback returns false and the operation is not re-queued if the        *)
(* session is gone or its protectOOM is false; otherwise taskStopped runs  *)
(* once, the operation is pushed once onto the tail of its session's front *)
(* queue and the callback returns true, so that the operation is           *)
(* redispatched in a later iteration.                                      *)
(***************************************************************************)
\* The step in which the running operation op calls memFailure().
MemFailureStep(op) ==
    opState[op] = "running" /\ opState'[op] \notin {"running", "done"} =>
        LET s == opSess[op] IN
        IF ~Alive(s) \/ ~protectOOM[s]
        THEN /\ opState'[op] = "oom"
             /\ ~Queued(op)'
             /\ queue' = queue /\ bgQueue' = bgQueue
             /\ m_runningTasks' = m_runningTasks
             /\ m_noPagingRunningTasks' = m_noPagingRunningTasks
        ELSE /\ opState'[op] = "queued"
             /\ queue' = [queue EXCEPT ![s] = Append(queue[s], op)]
             /\ bgQueue' = bgQueue
             /\ m_runningTasks' = m_runningTasks - 1
             /\ m_noPagingRunningTasks' =
                   m_noPagingRunningTasks - (IF opAsync[op] THEN 0 ELSE 1)
             /\ m_note_has_work'

\* A re-queued operation waits for its redispatch and nothing else happens
\* to it.
RequeuedWaits(op) ==
    opRetry[op] = "requeued" => opState'[op] \in {"queued", "pool"}

RequeuedWaitsOrCancelled(op) ==
    opRetry[op] = "requeued" =>
        \/ opState'[op] \in {"queued", "pool"}
        \/ opState'[op] = "cancelled" /\ forceEvicted[opSess[op]]
                                      /\ opCancels'[op] = opCancels[op] + 1
        \/ opState[op] = "cancelled" /\ opState'[op] = "cancelled"

SubmitStep(op) ==
    /\ opState[op] = "taken"
    /\ submitRet'.op = op
    /\ submitRet' # submitRet \/ opState'[op] # "taken"
    =>
    /\ submitRet'.ret = "null" <=>
          \/ ~Alive(opSess[op]) /\ opState'[op] = "dropped" /\ pool' = pool
          \/ Alive(opSess[op]) /\ opState'[op] = "pool" /\ pool' = pool \cup {op}
    /\ submitRet'.ret = "op" <=> Alive(opSess[op]) /\ (~opGood[op] \/ PoolFull)
    /\ submitRet'.ret = "op" => opState'[op] = "taken" /\ pool' = pool
    /\ submitRet'.ret \in {"null", "op"}
    /\ m_runningTasks' = m_runningTasks
    /\ m_noPagingRunningTasks' = m_noPagingRunningTasks

\* run() starts only in a closure the pool holds.
RunOnlyInPool(op) ==
    opState[op] # "running" /\ opState'[op] = "running" =>
        opState[op] = "pool" /\ op \in pool

SubmitReturns == [][\A op \in Ops : SubmitStep(op) /\ RunOnlyInPool(op)]_vars

\* submitTask gave an operation back because the pool was full, after it
\* had dropped nothing and the pool had accepted the other operation.
SubmitReturnsWitness ==
    \E op, other \in Ops :
        /\ submitRet = [op |-> op, ret |-> "op"]
        /\ opState[op] = "taken" /\ opGood[op] /\ Alive(opSess[op])
        /\ opState[other] = "running" /\ other \in pool
        /\ m_runningTasks = 1

(***************************************************************************)
(* C12  Every done() of a dispatched operation whose session is alive      *)
(* adds exactly 1 to that session's totalExecutedOp, in every              *)
(* configuration of the engine, so that a session whose N operations have  *)
(* all completed has totalExecutedOp = N.                                  *)
(***************************************************************************)
DoneOps(s) == {op \in Ops : opSess[op] = s /\ opState[op] = "done"}

DoneStep(op) ==
    opState[op] # "done" /\ opState'[op] = "done" /\ Alive(opSess[op]) =>
        totalExecutedOp'[opSess[op]] = totalExecutedOp[opSess[op]] + 1

DoneCountsExecuted ==
    /\ [][\A op \in Ops : DoneStep(op)]_vars
    /\ [](\A s \in Sessions : totalExecutedOp[s] = Cardinality(DoneOps(s)))

(***************************************************************************)
(* C13  Running counters: runningTasks is the number of operations for     *)
(* which taskRunning was called and that have not ended, and               *)
(* noPagingRunningTasks the number of those that are not async, so         *)
(* 0 <= noPagingRunningTasks <= runningTasks; both are 0 again once every  *)
(* dispatched operation has ended, by done(), by a memFailure() that       *)
(* re-queued it, or by a memFailure() that returned false.                 *)
(***************************************************************************)
RunningOps == {op \in Ops : opState[op] = "running"}

\* taskRunning was called and taskStopped was not: running, or left by a
\* memFailure() that returned false and not yet done().
CountedOps == {op \in Ops : opState[op] \in {"running", "oom"}}

RunningCountersEnded ==
    /\ m_runningTasks = Cardinality(RunningOps)
    /\ m_noPagingRunningTasks = Cardinality({op \in RunningOps : ~opAsync[op]})
    /\ 0 <= m_noPagingRunningTasks /\ m_noPagingRunningTasks <= m_runningTasks

\* As the code has it: memFailure() returning false leaves the counters,
\* the operation is counted until its done().
RunningCounters ==
    /\ m_runningTasks = Cardinality(CountedOps)
    /\ m_noPagingRunningTasks = Cardinality({op \in CountedOps : ~opAsync[op]})
    /\ 0 <= m_noPagingRunningTasks /\ m_noPagingRunningTasks <= m_runningTasks
    /\ (\A op \in Ops : opState[op] \in {"done", "dropped", "taken", "queued"})
           => m_runningTasks = 0 /\ m_noPagingRunningTasks = 0

\* A sync operation whose memFailure() returned false is still counted,
\* after an async operation ended with done().
RunningCountersWitness ==
    \E op, other \in Ops :
        /\ opState[op] = "oom" /\ ~opAsync[op]
        /\ opState[other] = "done" /\ opAsync[other]
        /\ m_runningTasks = 1 /\ m_noPagingRunningTasks = 1

(***************************************************************************)
(* C14  FIFO ingestion: the splice of queue into bgQueue never drops,      *)
(* duplicates or reorders an operation: operations enter bgQueue in the    *)
(* order in which pushToSessionQueue appended them to the front queue      *)
(* (client pushes and memFailure re-pushes alike), behind the operations   *)
(* an earlier iteration left in bgQueue.                                   *)
(***************************************************************************)
\* The front queue grows at its tail, one operation at a time, and is
\* emptied only by the splice.
PushAtTail(s) ==
    queue'[s] # queue[s] =>
        \/ \E op \in Ops : op \notin Range(queue[s]) /\ queue'[s] = Append(queue[s], op)
        \/ /\ queue'[s] = <<>>
           /\ pc = "prepare" /\ s = m_sessions[idx]
           /\ bgQueue'[s] = bgQueue[s] \o queue[s]

\* bgQueue grows by the splice at its tail and shrinks at its head.
SpliceAtTail(s) ==
    bgQueue'[s] # bgQueue[s] =>
        \/ bgQueue'[s] = bgQueue[s] \o queue[s] /\ queue'[s] = <<>>
        \/ bgQueue'[s] = Tail(bgQueue[s])

InQueues(op) ==
    SumOver([s \in Sessions |-> Occurrences(queue[s], op) + Occurrences(bgQueue[s], op)],
            Sessions)

FifoIngestion ==
    /\ [][\A s \in Sessions : PushAtTail(s) /\ SpliceAtTail(s)]_vars
    /\ [](\A op \in Ops : InQueues(op) <= 1)
    /\ [](\A op \in Ops : opState[op] = "queued" => InQueues(op) = 1)

\* Operation 1 was re-pushed by memFailure after operation 2 was pushed,
\* and bgQueue has them in that order.
FifoIngestionWitness ==
    \E s \in Sessions :
        /\ bgQueue[s] = <<2, 1>>
        /\ opRetry[1] = "requeued"
        /\ queue[s] = <<>>

(***************************************************************************)
(* C15  Backoff reset: a call maybeWaitForAWhile(scheduled) with           *)
(* scheduled > 0 sets the sleep duration to the initial 10ms and the       *)
(* last-progress time to now, and does not sleep; the sleep duration       *)
(* doubles only in a call that slept, and a call sleeps only when there    *)
(* was no progress for more than 20ms.                                     *)
(***************************************************************************)
WaitStep == pc = "backoff" /\ pc' # "backoff"

ProgressResets ==
    (WaitStep /\ scheduled > 0) =>
        /\ sleep' = initialSleep
        /\ last' = clock
        /\ ~slept'
        /\ clock' = clock

DoublesOnlyAfterSleep ==
    /\ sleep' # sleep =>
          /\ WaitStep
          /\ \/ scheduled > 0 /\ sleep' = initialSleep
             \/ scheduled = 0 /\ slept' /\ sleep' = 2 * sleep
    /\ (WaitStep /\ slept') =>
          /\ scheduled = 0
          /\ clock - last > getBored
          /\ clock' = clock + sleep
          /\ sleep' = 2 * sleep
    /\ (WaitStep /\ ~slept') => clock' = clock /\ sleep' \in {sleep, initialSleep}

BackoffReset == [][ProgressResets /\ DoublesOnlyAfterSleep]_vars

\* An iteration that scheduled an operation after the loop had slept twice:
\* the next step resets a doubled sleep duration.
BackoffResetWitness ==
    /\ pc = "backoff"
    /\ scheduled > 0
    /\ sleep = 4 * initialSleep
    /\ clock - last > getBored

(***************************************************************************)
(* C16  Once a scheduler iteration has consumed the deletion request of a  *)
(* session (swapped it out of m_deletedSessions) and released its change   *)
(* set, the session is not in the live list m_sessions, in that iteration  *)
(* or in any later state, whatever the interleaving of acceptOffer and     *)
(* deleteSession with the iterations.                                      *)
(***************************************************************************)
DeletionConsumedOf(s) ==
    /\ ectx[s].state = "deleted"
    /\ s \notin m_deletedSessions
    /\ s \notin chgDeleted

DeletionConsumed ==
    \A s \in Sessions : DeletionConsumedOf(s) => s \notin Range(m_sessions)

(***************************************************************************)
(* C17  Paging trigger: a scheduler iteration invokes doPaging(GPU0, CPU0) *)
(* if and only if remainingCount > 0, scheduled = 0,                       *)
(* noPagingRunningTasks = 0, the policy reports insufficientMemory(GPU0)   *)
(* and at least 2 sessions are live; with 1 live session doPaging is not   *)
(* invoked and no session is force-evicted; when doPaging returned true    *)
(* the loop goes to its next iteration without the backoff sleep and       *)
(* without waiting on the work notification.                               *)
(***************************************************************************)
InDoPaging(p) == p \in {"pgSort", "pgVisit", "pgVictim", "pgForce", "pgReturn"}

TriggerStep ==
    (pc = "check" /\ pc' # "check") =>
        (InDoPaging(pc') <=>
            /\ remainingCount > 0
            /\ scheduled = 0
            /\ m_noPagingRunningTasks = 0
            /\ askedPolicy' = "insufficient"
            /\ Len(m_sessions) > 1)

OnlyFromCheck ==
    /\ (InDoPaging(pc') /\ ~InDoPaging(pc)) => pc = "check"
    /\ (forceEvicted' # forceEvicted \/ evictCalls' # evictCalls) =>
          InDoPaging(pc) /\ Len(m_sessions) > 1

ReiterateAfterPaging ==
    (pc = "pgReturn" /\ pc' # "pgReturn" /\ pagRet = "true") =>
        /\ pc' = "swapDel"
        /\ UNCHANGED <<clock, last, sleep, slept, m_note_has_work>>

PagingTrigger ==
    /\ [][TriggerStep /\ OnlyFromCheck /\ ReiterateAfterPaging]_vars
    /\ [](InDoPaging(pc) => Len(m_sessions) > 1)

\* doPaging, invoked after the policy reported insufficient memory, is
\* about to return true to the loop.
PagingTriggerWitness ==
    /\ pc = "pgReturn"
    /\ pagRet = "true"
    /\ askedPolicy = "insufficient"
    /\ m_note_has_work

(***************************************************************************)
(* C18  No lost wake-up: the scheduler blocks in m_note_has_work.wait()    *)
(* only in an iteration in which no live session had remaining work, and,  *)
(* the scheduling thread and the notifying callers being fair, every       *)
(* operation pushed onto the front queue of a live session is eventually   *)
(* spliced into the session's bgQueue, however the push and the notify of  *)
(* pushToSessionQueue interleave with the splice and the wait.             *)
(***************************************************************************)
LiveSession(s) == s \in Range(m_sessions) \/ s \in Range(m_newSessions)

RemainingWork ==
    SumOver([s \in Sessions |-> IF s \in Range(m_sessions) THEN Len(bgQueue[s]) ELSE 0],
            Sessions)

WaitsOnlyWhenIdle ==
    /\ pc = "policy" => totalRemainingCount = RemainingWork
    /\ pc = "wait" => \A s \in Sessions : s \in Range(m_sessions) => bgQueue[s] = <<>>

BlocksOnlyWithoutWork ==
    (pc # "wait" /\ pc' = "wait") => totalRemainingCount = 0

LeavesQueueBySplice ==
    \A s \in Sessions, op \in Ops :
        (op \in Range(queue[s]) /\ op \notin Range(queue'[s])) => op \in Range(bgQueue'[s])

NoLostWakeup ==
    /\ []WaitsOnlyWhenIdle
    /\ [][BlocksOnlyWithoutWork /\ LeavesQueueBySplice]_vars
    /\ \A s \in WakeSessions, op \in Ops :
          (op \in Range(queue[s]) /\ LiveSession(s)) ~> (op \notin Range(queue[s]))

\* The scheduler is blocked in wait(), an operation is already in the front
\* queue of a live session and its caller has not notified yet.
NoLostWakeupWitness ==
    /\ pc = "wait"
    /\ ~m_note_has_work
    /\ \E s \in WakeSessions, op \in Ops :
          /\ s \in Range(m_sessions)
          /\ op \in Range(queue[s])
          /\ op \in notifying

(***************************************************************************)
(* C19  In the volunteer phase of doPaging a candidate session (other than *)
(* the largest) that owns no tickets is skipped, and every later candidate *)
(* in descending order of usage that has tickets and a paging callback is  *)
(* still asked to volunteer: when the phase ends without a return, each    *)
(* such candidate has been asked.                                          *)
(***************************************************************************)
VolunteerPhaseOver == pc = "pgForce"

TicketlessSkipped ==
    VolunteerPhaseOver =>
        \A i \in 2..Len(pagCands) :
            LET s == pagCands[i][2] IN
            (tickets[s] # {} /\ pagingCb[s]) => s \in volunteered

(***************************************************************************)
(* C20  In doPaging, when the pre-allocation of the destination-device     *)
(* ResourceContext for a victim ticket fails, doPaging returns false at    *)
(* once: volunteer() is called neither for that ticket nor for a later     *)
(* one, no session is force-evicted, no flag of a session changes and no   *)
(* staging stays reserved on the destination device.                       *)
(***************************************************************************)
PreallocFails ==
    /\ pc = "pgVictim"
    /\ victims # <<>>
    /\ ~PreAllocateFits(dstTag, Head(victims)[1])

\* Each call of volunteer() takes a fresh ticket for its ResourceContext.
VolunteerCalled == nextTicket' # nextTicket

PreallocFailStep ==
    (PreallocFails /\ pc' # pc) =>
        /\ pagRet' = "false"
        /\ pc' = "pgReturn"
        /\ ~VolunteerCalled
        /\ UNCHANGED <<volunteered, released, evictedNow, evictCalls>>
        /\ UNCHANGED <<forceEvicted, protectOOM, pagingCb>>
        /\ UNCHANGED <<free, staging, committed, tickets, resourceUsage>>

NothingAfterReturn ==
    pc = "pgReturn" =>
        /\ ~VolunteerCalled
        /\ UNCHANGED <<volunteered, evictedNow, evictCalls, forceEvicted, protectOOM>>

PreallocFailureReturns ==
    /\ [][PreallocFailStep /\ NothingAfterReturn]_vars
    /\ [](pagRet = "false" /\ victims # <<>> =>
             /\ evictedNow = {}
             /\ \A t \in Tickets : staging[t][dstTag] = 0)

\* doPaging returned false on a victim ticket that does not fit on CPU0,
\* with a session that the force eviction would have taken.
PreallocFailureReturnsWitness ==
    /\ pc = "pgReturn"
    /\ pagRet = "false"
    /\ victims # <<>>
    /\ ~PreAllocateFits(dstTag, Head(victims)[1])
    /\ pagingCb[pagCands[1][2]]

(***************************************************************************)
(* C21  Lock ordering: however the scheduling thread in doPaging           *)
(* interleaves with a worker thread in ResourceContext::alloc and          *)
(* OperationScope commit/rollback, no thread goes for a session's          *)
(* tickets_mu or mu while it holds the monitor mutex, and no state is      *)
(* reachable in which the threads wait for each other's lock.              *)
(***************************************************************************)
HoldsMonitor(c) == scope # NoScope /\ scope.ctx = c

\* The thread of context c is at notifyMemoryAllocation, which takes tickets_mu.
WantsTicketsMu(c) == commitPc = "notify" /\ scope.ctx = c

NoAcquireUnderMonitor ==
    \A c \in Ctxs : ~(HoldsMonitor(c) /\ WantsTicketsMu(c))

\* The scheduling thread holds tickets_mu of a session and waits for the
\* monitor mutex; the worker holds the monitor mutex and waits for that
\* tickets_mu.
LockDeadlock ==
    /\ pc = "pgSortVictim"
    /\ scope # NoScope
    /\ commitPc = "notify"
    /\ tickets_mu[rctx[scope.ctx].session] = "sched"

LockOrdering == NoAcquireUnderMonitor /\ ~LockDeadlock

(***************************************************************************)
(* C22  Once doPaging has force-evicted a session, its protectOOM stays    *)
(* false in every later state, so that memFailure() of an operation of     *)
(* the session returns false and the operation is not queued again, over   *)
(* any number of later scheduler iterations.                               *)
(***************************************************************************)
EvictedUnprotected ==
    \A s \in Sessions : forceEvicted[s] => ~protectOOM[s]

EvictedNotRequeued ==
    \A op \in Ops :
        (opSess[op] \in Sessions /\ forceEvicted[opSess[op]]) =>
            ~(opRetry[op] # "requeued" /\ opRetry'[op] = "requeued")

ProtectOffAfterEvict ==
    /\ []EvictedUnprotected
    /\ [][EvictedNotRequeued]_vars

(***************************************************************************)
(* C23  Over any sequence of scheduler iterations and doPaging calls the   *)
(* forceEvicted callback of a session is invoked at most once: a session   *)
(* whose forceEvicted flag is set is not selected for force eviction       *)
(* again.                                                                  *)
(***************************************************************************)
EvictedAtMostOnce ==
    \A s \in Sessions : evictCalls[s] <= 1

(***************************************************************************)
(* C24  While doPaging is executing, no synchronous operation that the     *)
(* worker pool accepted earlier is still unfinished (waiting in the pool,  *)
(* running, or about to call done or memFailure), so that no operation     *)
(* finishes and nothing is pushed to a session queue during paging,        *)
(* however the pool threads interleave with the scheduler's test of        *)
(* noPagingRunningTasks.                                                   *)
(***************************************************************************)
UnfinishedSync ==
    {op \in Ops : ~opAsync[op] /\ opState[op] \in {"pool", "running", "oom"}}

QuietPaging ==
    InDoPaging(pc) =>
        \A op \in Ops :
            /\ opState'[op] = "done" => opState[op] = "done"
            /\ opRetry'[op] = "requeued" => opRetry[op] = "requeued"

NoSyncWorkDuringPaging ==
    /\ [](InDoPaging(pc) => UnfinishedSync = {})
    /\ [][QuietPaging]_vars

(***************************************************************************)
(* C25  Ticket bookkeeping: after any sequence of initializeStaging,       *)
(* alloc and commit, rollback, dealloc and releaseStaging on the           *)
(* ResourceContext of a ticket, a ticket without usage left in the monitor *)
(* (hasUsage(ticket) false) is not in the tickets set of its session, so   *)
(* that sortVictim is given only tickets that hold resources.              *)
(***************************************************************************)
\* ResourceMonitor::hasUsage(ticket): committed or staging nonzero.
HasUsage(t) == \E k \in Tags : committed[t][k] # 0 \/ staging[t][k] # 0

TicketsHoldResources ==
    scope = NoScope =>
        \A s \in Sessions : \A t \in tickets[s] : HasUsage(t)
=============================================================================
